---- MODULE Spec2Model ----
(***************************************************************************)
(* Model of the Codex usage collector (src/src/collector.ts):              *)
(* collectCodexUsageData parses every session log line by line, sorts the  *)
(* parsed sessions, trims forked prefixes and merges the rest.             *)
(*                                                                         *)
(* Encoding of JavaScript values                                           *)
(*   - a string is a sequence of tokens (each token a short TLA+ string),  *)
(*     so that trim and join act on it; "" is <<>>.  A value that is not a *)
(*     string is <<>> too wherever the code only passes it through         *)
(*     asNonEmptyString or a truthiness test.                              *)
(*   - an optional value is <<>> (undefined / null) or <<v>>.              *)
(*   - a timestamp is a number of ticks; <<0>> is a present but falsy      *)
(*     value ("" or 0), <<>> is null / undefined.  Every truthy timestamp  *)
(*     is a valid instant.                                                 *)
(*   - a JSON scalar read as a number is JNull, JNum(n) or JOther.         *)
(***************************************************************************)
EXTENDS Integers, Sequences, FiniteSets, TLC

-----------------------------------------------------------------------------
(* JavaScript helpers *)

Max(a, b) == IF a >= b THEN a ELSE b
Min(a, b) == IF a <= b THEN a ELSE b

JNull == [kind |-> "null", num |-> 0]
JOther == [kind |-> "other", num |-> 0]
JNum(n) == [kind |-> "number", num |-> n]

\* a ?? b on JSON scalars
Coalesce(a, b) == IF a.kind = "null" THEN b ELSE a

Whitespace == {" ", "\t"}

RECURSIVE TrimStart(_)
TrimStart(s) ==
  IF s # <<>> /\ Head(s) \in Whitespace THEN TrimStart(Tail(s)) ELSE s

RECURSIVE TrimEnd(_)
TrimEnd(s) ==
  IF s # <<>> /\ s[Len(s)] \in Whitespace
    THEN TrimEnd(SubSeq(s, 1, Len(s) - 1))
    ELSE s

\* asNonEmptyString: the trimmed string, or <<>> (undefined) when nothing is left
asNonEmptyString(value) == TrimEnd(TrimStart(value))

-----------------------------------------------------------------------------
(* Program constants *)

LEGACY_FALLBACK_MODEL == <<"gpt-5">>
FORK_PREFIX_MIN_MATCH == 3
ShortSequenceLimit == 4

-----------------------------------------------------------------------------
(* Usage normalisation *)

ensureNumber(value) == IF value.kind = "number" THEN value.num ELSE 0

\* <<>> for a value that is no object, else <<RawUsage>>
normalizeRawUsage(value) ==
  IF value.kind # "object" THEN <<>>
  ELSE LET input == ensureNumber(value.input_tokens)
           cached == ensureNumber(Coalesce(value.cached_input_tokens,
                                           value.cache_read_input_tokens))
           output == ensureNumber(value.output_tokens)
           reasoning == ensureNumber(value.reasoning_output_tokens)
           total == ensureNumber(value.total_tokens)
       IN << [input_tokens |-> input,
              cached_input_tokens |-> cached,
              output_tokens |-> output,
              reasoning_output_tokens |-> reasoning,
              total_tokens |-> IF total > 0 THEN total ELSE input + output] >>

ZeroUsage ==
  [input_tokens |-> 0, cached_input_tokens |-> 0, output_tokens |-> 0,
   reasoning_output_tokens |-> 0, total_tokens |-> 0]

subtractRawUsageNoClamp(current, previous) ==
  LET prev == IF previous = <<>> THEN ZeroUsage ELSE previous[1]
  IN [input_tokens |-> current.input_tokens - prev.input_tokens,
      cached_input_tokens |-> current.cached_input_tokens - prev.cached_input_tokens,
      output_tokens |-> current.output_tokens - prev.output_tokens,
      reasoning_output_tokens |->
        current.reasoning_output_tokens - prev.reasoning_output_tokens,
      total_tokens |-> current.total_tokens - prev.total_tokens]

\* previous is <<>> (null) or <<RawUsage>>
subtractRawUsage(current, previous) ==
  LET prev == IF previous = <<>> THEN ZeroUsage ELSE previous[1]
  IN [input_tokens |-> Max(current.input_tokens - prev.input_tokens, 0),
      cached_input_tokens |->
        Max(current.cached_input_tokens - prev.cached_input_tokens, 0),
      output_tokens |-> Max(current.output_tokens - prev.output_tokens, 0),
      reasoning_output_tokens |->
        Max(current.reasoning_output_tokens - prev.reasoning_output_tokens, 0),
      total_tokens |-> Max(current.total_tokens - prev.total_tokens, 0)]

convertToDelta(raw) ==
  LET total == IF raw.total_tokens > 0 THEN raw.total_tokens
               ELSE raw.input_tokens + raw.output_tokens
      cached == Min(raw.cached_input_tokens, raw.input_tokens)
  IN [inputTokens |-> raw.input_tokens,
      cachedInputTokens |-> cached,
      outputTokens |-> raw.output_tokens,
      reasoningOutputTokens |-> raw.reasoning_output_tokens,
      totalTokens |-> total]

-----------------------------------------------------------------------------
(* Model extraction *)

FirstNonEmpty(candidates) ==
  LET hits == {i \in 1..Len(candidates) : asNonEmptyString(candidates[i]) # <<>>}
  IN IF hits = {} THEN <<>>
     ELSE asNonEmptyString(candidates[CHOOSE i \in hits : \A j \in hits : i <= j])

\* value: a payload-like object, or [kind |-> "null"] for anything else
extractModel(value) ==
  IF value.kind # "object" THEN <<>>
  ELSE LET info == value.info
           fromInfo ==
             IF info.kind = "object"
               THEN FirstNonEmpty(<<info.model, info.model_name, info.metadata_model>>)
               ELSE <<>>
       IN IF fromInfo # <<>> THEN fromInfo
          ELSE FirstNonEmpty(<<value.model, value.metadata_model>>)

-----------------------------------------------------------------------------
(* Signatures *)

\* JSON.stringify of {message, textElements, imageCount, localImageCount}
createUserMessageSignature(payload) ==
  [message |-> asNonEmptyString(payload.message),
   textElements |-> IF payload.text_elements.kind = "array"
                      THEN payload.text_elements.items ELSE <<>>,
   imageCount |-> IF payload.images.kind = "array" THEN payload.images.len ELSE 0,
   localImageCount |->
     IF payload.local_images.kind = "array" THEN payload.local_images.len ELSE 0]

RECURSIVE JoinNoSeparator(_, _)
JoinNoSeparator(parts, sep) ==
  IF parts = <<>> THEN <<>> ELSE parts[1] \o JoinNoSeparator(Tail(parts), sep)

RECURSIVE Join(_, _)
\* Array.prototype.join on an array of strings
Join(parts, sep) ==
  IF parts = <<>> THEN <<>>
  ELSE IF Len(parts) = 1 THEN parts[1]
  ELSE parts[1] \o sep \o Join(Tail(parts), sep)

RECURSIVE Digits(_)
Digits(n) ==
  IF n < 10 THEN <<ToString(n)>> ELSE Digits(n \div 10) \o <<ToString(n % 10)>>

\* String(n) of an integer, one token per character
NumberToString(n) == IF n < 0 THEN <<"-">> \o Digits(0 - n) ELSE Digits(n)

createTokenEventSignature(event) ==
  Join(<<event.model,
         NumberToString(event.inputTokens),
         NumberToString(event.cachedInputTokens),
         NumberToString(event.outputTokens),
         NumberToString(event.reasoningOutputTokens),
         NumberToString(event.totalTokens)>>, <<"|">>)

\* the calendar day of an instant
TicksPerDay == 2
formatDateKey(ts) == ts \div TicksPerDay

-----------------------------------------------------------------------------
(* Ordering of sessions and events *)

\* String.prototype.localeCompare; a file path is modelled by its rank in the
\* collation order, so distinct paths never compare equal
localeCompare(a, b) == IF a < b THEN -1 ELSE IF a > b THEN 1 ELSE 0

compareSessionsIgnoringMissingDate(a, b) ==
  IF a.sessionDate # <<>> /\ b.sessionDate # <<>> /\ a.sessionDate # b.sessionDate
    THEN a.sessionDate[1] - b.sessionDate[1]
    ELSE localeCompare(a.filePath, b.filePath)

compareSessionsByDate(a, b) ==
  LET aTime == a.sessionDate
      bTime == b.sessionDate
  IN IF aTime # <<>> /\ bTime # <<>> /\ aTime[1] # bTime[1] THEN aTime[1] - bTime[1]
     ELSE IF aTime # <<>> /\ bTime = <<>> THEN -1
     ELSE IF aTime = <<>> /\ bTime # <<>> THEN 1
     ELSE localeCompare(a.filePath, b.filePath)

Front(s) == SubSeq(s, 1, Len(s) - 1)
Last(s) == s[Len(s)]

RECURSIVE InsertSession(_, _)
InsertSession(sorted, x) ==
  IF sorted = <<>> THEN <<x>>
  ELSE IF compareSessionsByDate(Last(sorted), x) <= 0 THEN Append(sorted, x)
  ELSE Append(InsertSession(Front(sorted), x), Last(sorted))

SortSessionsSkipped(list) == list

RECURSIVE SortSessions(_)
\* sessions.sort(compareSessionsByDate): a stable sort
SortSessions(list) ==
  IF list = <<>> THEN <<>> ELSE InsertSession(SortSessions(Front(list)), Last(list))

compareEventsByTimestamp(a, b) == a.timestamp - b.timestamp

RECURSIVE InsertEvent(_, _)
InsertEvent(sorted, x) ==
  IF sorted = <<>> THEN <<x>>
  ELSE IF compareEventsByTimestamp(Last(sorted), x) <= 0 THEN Append(sorted, x)
  ELSE Append(InsertEvent(Front(sorted), x), Last(sorted))

SortEventsSkipped(list) == list

RECURSIVE SortEvents(_)
\* events.sort((a, b) => time(a) - time(b)): a stable sort
SortEvents(list) ==
  IF list = <<>> THEN <<>> ELSE InsertEvent(SortEvents(Front(list)), Last(list))

-----------------------------------------------------------------------------
(* Fork detection *)

shouldApplyForkDedupAnyLength(overlap, sequenceLength) ==
  overlap >= FORK_PREFIX_MIN_MATCH

shouldApplyForkDedup(overlap, sequenceLength) ==
  IF overlap < FORK_PREFIX_MIN_MATCH THEN FALSE
  ELSE IF sequenceLength <= ShortSequenceLimit THEN overlap = sequenceLength
  ELSE TRUE

RECURSIVE PrefixScan(_, _, _, _)
PrefixScan(left, right, limit, index) ==
  IF index < limit /\ left[index + 1] = right[index + 1]
    THEN PrefixScan(left, right, limit, index + 1)
    ELSE index

commonPrefixLengthOffByOne(left, right) ==
  Max(PrefixScan(left, right, Min(Len(left), Len(right)), 0) - 1, 0)

commonPrefixLength(left, right) ==
  PrefixScan(left, right, Min(Len(left), Len(right)), 0)

RECURSIVE OverlapScan(_, _, _, _)
\* the loop over the candidates, from candidate k on, with the best so far
OverlapScan(sequence, candidateSequences, k, best) ==
  IF k > Len(candidateSequences) THEN best
  ELSE LET candidate == candidateSequences[k]
       IN IF Len(candidate) = 0
            THEN OverlapScan(sequence, candidateSequences, k + 1, best)
          ELSE LET overlap == commonPrefixLength(sequence, candidate)
               IN IF overlap > best
                    THEN IF overlap = Len(sequence) THEN overlap
                         ELSE OverlapScan(sequence, candidateSequences, k + 1, overlap)
                    ELSE OverlapScan(sequence, candidateSequences, k + 1, best)

findLargestPrefixOverlap(sequence, candidateSequences) ==
  IF Len(sequence) = 0 \/ Len(candidateSequences) = 0 THEN 0
  ELSE OverlapScan(sequence, candidateSequences, 1, 0)

-----------------------------------------------------------------------------
(* State *)

VARIABLES
  yearDir,                 \* the sessions directory of the requested year, as readdir sees it
  files,                   \* listCodexSessionFiles(year): the discovered paths, in discovery order
  sessions,                \* the parsed sessions; sorted in place before the merge
  pc,                      \* "parse", "sort", "dedup" or "done"
  \* the locals of the parse of the current file
  lineNo,                  \* number of lines read from the current file
  entry,                   \* the line just read
  linesRead,               \* history: the lines read from the current file so far
  previousTotals,
  currentModel,
  currentModelIsFallback,
  legacyFallbackUsed,
  sessionDate,
  sessionCwd,
  sessionId,
  forkedFromId,
  userMessages,
  sessionEvents,
  \* the locals of the merge
  idx,                     \* position of the for loop over the sorted sessions
  events,
  dailyActivity,
  projects,
  totalMessages,
  earliestSessionDate,
  priorSessionsByCwd,
  sessionsById,
  merged,                  \* history: per processed session, its start indices and what it contributed
  totalSessions            \* the returned totalSessions (0 until the return)

parseVars ==
  <<lineNo, entry, linesRead, previousTotals, currentModel, currentModelIsFallback,
    legacyFallbackUsed, sessionDate, sessionCwd, sessionId, forkedFromId,
    userMessages, sessionEvents>>

mergeVars ==
  <<idx, events, dailyActivity, projects, totalMessages, earliestSessionDate,
    priorSessionsByCwd, sessionsById, merged, totalSessions>>

vars == <<yearDir, files, sessions, pc, parseVars, mergeVars>>

-----------------------------------------------------------------------------
(* Log lines *)

NoUsage == [kind |-> "null"]
NoInfo == [kind |-> "null"]
NotArray == [kind |-> "other", len |-> 0, items |-> <<>>]
JArray(items) == [kind |-> "array", len |-> Len(items), items |-> items]

Info(model, modelName, metadataModel, last, total) ==
  [kind |-> "object", model |-> model, model_name |-> modelName,
   metadata_model |-> metadataModel,
   last_token_usage |-> last, total_token_usage |-> total]

\* a payload object with every field absent
EmptyPayload ==
  [kind |-> "object", type |-> "", timestamp |-> <<>>, cwd |-> <<>>, id |-> <<>>,
   forked_from_id |-> <<>>, info |-> NoInfo, model |-> <<>>,
   metadata_model |-> <<>>, message |-> <<>>, text_elements |-> NotArray,
   images |-> NotArray, local_images |-> NotArray]

\* entry?.payload when payload is not an object
NoPayload == [EmptyPayload EXCEPT !.kind = "null"]

BlankLine == [raw |-> "blank", type |-> "", timestamp |-> <<>>, payload |-> NoPayload]
GarbageLine == [raw |-> "garbage", type |-> "", timestamp |-> <<>>, payload |-> NoPayload]
JsonLine(type, timestamp, payload) ==
  [raw |-> "json", type |-> type, timestamp |-> timestamp, payload |-> payload]

Usage(input, cached, output, reasoning, total) ==
  [kind |-> "object", input_tokens |-> input, cached_input_tokens |-> cached,
   cache_read_input_tokens |-> JNull, output_tokens |-> output,
   reasoning_output_tokens |-> reasoning, total_tokens |-> total]

\* if (x) on a timestamp
Truthy(timestamp) == timestamp # <<>> /\ timestamp[1] # 0

\* entry?.timestamp, read by the event_msg branches
TimestampOrPayload(line) ==
  IF line.timestamp # <<>> THEN line.timestamp ELSE line.payload.timestamp

TopLevelTimestamp(line) == line.timestamp

IsSessionMeta(line) == line.raw = "json" /\ line.type = "session_meta"
IsTurnContext(line) == line.raw = "json" /\ line.type = "turn_context"
IsEventMsg(line) == line.raw = "json" /\ line.type = "event_msg"
IsUserMessage(line) == IsEventMsg(line) /\ line.payload.type = "user_message"
IsTokenCountAnyEvent(line) == IsEventMsg(line) /\ line.payload.type # "user_message"
IsTokenCount(line) == IsEventMsg(line) /\ line.payload.type = "token_count"

-----------------------------------------------------------------------------
(* Parsing one file: the body of the for-await loop, one action per branch *)

MaxLines == 3      \* longest file read

Reading == pc = "parse" /\ Len(sessions) < Len(files)
currentFile == files[Len(sessions) + 1]

ReadLine(line) ==
  /\ Reading
  /\ lineNo < MaxLines
  /\ entry' = line
  /\ linesRead' = Append(linesRead, line)
  /\ lineNo' = lineNo + 1
  /\ UNCHANGED <<yearDir, files, sessions, pc, mergeVars>>

\* blank and unparseable lines, unknown record types, other event_msg payloads
SkipLine(line) ==
  /\ ReadLine(line)
  /\ ~IsSessionMeta(line) /\ ~IsTurnContext(line)
  /\ ~IsUserMessage(line) /\ ~IsTokenCount(line)
  /\ UNCHANGED <<previousTotals, currentModel, currentModelIsFallback,
                 legacyFallbackUsed, sessionDate, sessionCwd, sessionId,
                 forkedFromId, userMessages, sessionEvents>>

LatestId(current, parsed) == IF parsed # <<>> THEN parsed ELSE current

\* if (!sessionId) { ... if (parsedSessionId) sessionId = parsedSessionId }
StickyId(current, parsed) ==
  IF current = <<>> /\ parsed # <<>> THEN parsed ELSE current

SessionMeta(line) ==
  /\ ReadLine(line)
  /\ IsSessionMeta(line)
  /\ LET metaPayload == line.payload
         sessionTimestamp ==
           IF metaPayload.timestamp # <<>> THEN metaPayload.timestamp
           ELSE line.timestamp
         cwd == metaPayload.cwd
         parsedSessionId == asNonEmptyString(metaPayload.id)
         parsedForkedFromId == asNonEmptyString(metaPayload.forked_from_id)
     IN /\ sessionDate' =
             IF Truthy(sessionTimestamp)
                /\ (sessionDate = <<>> \/ sessionTimestamp[1] < sessionDate[1])
               THEN sessionTimestamp
               ELSE sessionDate
        /\ sessionCwd' = IF cwd # <<>> THEN cwd ELSE sessionCwd
        /\ sessionId' = StickyId(sessionId, parsedSessionId)
        /\ forkedFromId' = StickyId(forkedFromId, parsedForkedFromId)
  /\ UNCHANGED <<previousTotals, currentModel, currentModelIsFallback,
                 legacyFallbackUsed, userMessages, sessionEvents>>

TurnContextKeepingFlag(line) ==
  /\ ReadLine(line)
  /\ IsTurnContext(line)
  /\ LET model == extractModel(line.payload)
     IN currentModel' = IF model # <<>> THEN model ELSE currentModel
  /\ UNCHANGED <<previousTotals, currentModelIsFallback, legacyFallbackUsed,
                 sessionDate, sessionCwd, sessionId, forkedFromId, userMessages,
                 sessionEvents>>

TurnContext(line) ==
  /\ ReadLine(line)
  /\ IsTurnContext(line)
  /\ LET model == extractModel(line.payload)
     IN IF model # <<>>
          THEN currentModel' = model /\ currentModelIsFallback' = FALSE
          ELSE UNCHANGED <<currentModel, currentModelIsFallback>>
  /\ UNCHANGED <<previousTotals, legacyFallbackUsed, sessionDate, sessionCwd,
                 sessionId, forkedFromId, userMessages, sessionEvents>>

UserMessage(line) ==
  /\ ReadLine(line)
  /\ IsUserMessage(line)
  /\ userMessages' =
       IF Truthy(TopLevelTimestamp(line))
         THEN Append(userMessages,
                     [timestamp |-> TopLevelTimestamp(line)[1],
                      signature |-> createUserMessageSignature(line.payload),
                      uid |-> <<currentFile, lineNo + 1>>])
         ELSE userMessages
  /\ UNCHANGED <<previousTotals, currentModel, currentModelIsFallback,
                 legacyFallbackUsed, sessionDate, sessionCwd, sessionId,
                 forkedFromId, sessionEvents>>

\* the raw usage of a token_count line: <<>> or <<RawUsage>>
RawOf(line, previous) ==
  LET info == line.payload.info
      lastUsage == IF info.kind = "object"
                     THEN normalizeRawUsage(info.last_token_usage) ELSE <<>>
      totalUsage == IF info.kind = "object"
                      THEN normalizeRawUsage(info.total_token_usage) ELSE <<>>
  IN IF lastUsage = <<>> /\ totalUsage # <<>>
       THEN <<subtractRawUsage(totalUsage[1], previous)>>
       ELSE lastUsage

TotalsOfCumulativeOnly(line) ==
  IF /\ line.payload.info.kind = "object"
     /\ line.payload.info.last_token_usage.kind # "object"
    THEN normalizeRawUsage(line.payload.info.total_token_usage) ELSE <<>>

TotalsOf(line) ==
  IF line.payload.info.kind = "object"
    THEN normalizeRawUsage(line.payload.info.total_token_usage) ELSE <<>>

IsZeroDeltaAndTotal(delta) ==
  /\ delta.inputTokens = 0
  /\ delta.cachedInputTokens = 0
  /\ delta.outputTokens = 0
  /\ delta.reasoningOutputTokens = 0
  /\ delta.totalTokens = 0

IsZeroReasoningDelta(delta) == delta.reasoningOutputTokens = 0

IsZeroDelta(delta) ==
  /\ delta.inputTokens = 0
  /\ delta.cachedInputTokens = 0
  /\ delta.outputTokens = 0
  /\ delta.reasoningOutputTokens = 0

ResolveModelNoTracking(extractedModel, tracked) ==
  IF extractedModel # <<>> THEN extractedModel ELSE LEGACY_FALLBACK_MODEL

\* extractedModel ?? currentModel, else the legacy fallback
ResolveModel(extractedModel, tracked) ==
  IF extractedModel # <<>> THEN extractedModel
  ELSE IF tracked # <<>> THEN tracked
  ELSE LEGACY_FALLBACK_MODEL

TokenCountTrackingFirst(line) ==
  /\ ReadLine(line)
  /\ IsTokenCount(line)
  /\ LET extractedModel == extractModel(line.payload)
     IN IF extractedModel # <<>>
          THEN currentModel' = extractedModel /\ currentModelIsFallback' = FALSE
          ELSE UNCHANGED <<currentModel, currentModelIsFallback>>
  /\ UNCHANGED <<previousTotals, legacyFallbackUsed, sessionEvents, sessionDate,
                 sessionCwd, sessionId, forkedFromId, userMessages>>

TokenCount(line) ==
  /\ ReadLine(line)
  /\ IsTokenCount(line)
  /\ IF ~Truthy(TopLevelTimestamp(line))
       THEN UNCHANGED <<previousTotals, currentModel, currentModelIsFallback,
                        legacyFallbackUsed, sessionEvents>>
       ELSE
         LET raw == RawOf(line, previousTotals)
             totalUsage == TotalsOf(line)
             extractedModel == extractModel(line.payload)
             tracked == IF extractedModel # <<>> THEN extractedModel ELSE currentModel
             model == ResolveModel(extractedModel, currentModel)
         IN /\ previousTotals' = IF totalUsage # <<>> THEN totalUsage ELSE previousTotals
            /\ IF raw = <<>> \/ IsZeroDelta(convertToDelta(raw[1]))
                 THEN UNCHANGED <<currentModel, currentModelIsFallback,
                                  legacyFallbackUsed, sessionEvents>>
                 ELSE
                   LET delta == convertToDelta(raw[1])
                   IN /\ currentModel' = model
                      /\ currentModelIsFallback' =
                           IF extractedModel # <<>> THEN FALSE
                           ELSE IF tracked = <<>> THEN TRUE
                           ELSE currentModelIsFallback
                      /\ legacyFallbackUsed' = (legacyFallbackUsed \/ tracked = <<>>)
                      /\ sessionEvents' =
                           Append(sessionEvents,
                                  [timestamp |-> TopLevelTimestamp(line)[1],
                                   model |-> model,
                                   inputTokens |-> delta.inputTokens,
                                   cachedInputTokens |-> delta.cachedInputTokens,
                                   outputTokens |-> delta.outputTokens,
                                   reasoningOutputTokens |-> delta.reasoningOutputTokens,
                                   totalTokens |-> delta.totalTokens,
                                   uid |-> <<currentFile, lineNo + 1>>])
  /\ UNCHANGED <<sessionDate, sessionCwd, sessionId, forkedFromId, userMessages>>

Signatures(messages) == [i \in 1..Len(messages) |-> messages[i].signature]
TokenSignatures(list) == [i \in 1..Len(list) |-> createTokenEventSignature(list[i])]

SessionUsage(filePath, cwd, id, forkedFrom, date, messages, usageEvents) ==
  [filePath |-> filePath, cwd |-> cwd, sessionId |-> id,
   forkedFromId |-> forkedFrom, sessionDate |-> date,
   userMessages |-> messages, messageSignatures |-> Signatures(messages),
   events |-> usageEvents, tokenSignatures |-> TokenSignatures(usageEvents)]

FreshParse ==
  /\ lineNo = 0
  /\ entry = BlankLine
  /\ linesRead = <<>>
  /\ previousTotals = <<>>
  /\ currentModel = <<>>
  /\ currentModelIsFallback = FALSE
  /\ legacyFallbackUsed = FALSE
  /\ sessionDate = <<>>
  /\ sessionCwd = <<>>
  /\ sessionId = <<>>
  /\ forkedFromId = <<>>
  /\ userMessages = <<>>
  /\ sessionEvents = <<>>

\* end of the stream: sessions.push(...), then the next file starts with fresh locals
EndOfFile ==
  /\ Reading
  /\ sessions' = Append(sessions,
                        SessionUsage(currentFile, sessionCwd, sessionId, forkedFromId,
                                     sessionDate, userMessages, sessionEvents))
  /\ pc' = IF Len(sessions') = Len(files) THEN "sort" ELSE "parse"
  /\ lineNo' = 0
  /\ entry' = BlankLine
  /\ linesRead' = <<>>
  /\ previousTotals' = <<>>
  /\ currentModel' = <<>>
  /\ currentModelIsFallback' = FALSE
  /\ legacyFallbackUsed' = FALSE
  /\ sessionDate' = <<>>
  /\ sessionCwd' = <<>>
  /\ sessionId' = <<>>
  /\ forkedFromId' = <<>>
  /\ userMessages' = <<>>
  /\ sessionEvents' = <<>>
  /\ UNCHANGED <<yearDir, files, mergeVars>>

-----------------------------------------------------------------------------
(* The merge: sort, one pass over the sorted sessions, final sort and return *)

FreshMerge ==
  /\ idx = 1
  /\ events = <<>>
  /\ dailyActivity = <<>>
  /\ projects = {}
  /\ totalMessages = 0
  /\ earliestSessionDate = <<>>
  /\ priorSessionsByCwd = <<>>
  /\ sessionsById = <<>>
  /\ merged = <<>>
  /\ totalSessions = 0

\* Map.prototype.get / set on a function used as a Map
MapGetDefault(map, key, default) == default
MapGet(map, key, default) == IF key \in DOMAIN map THEN map[key] ELSE default
MapSetIfAbsent(map, key, value) ==
  [k \in DOMAIN map \cup {key} |-> IF k \in DOMAIN map THEN map[k] ELSE value]
MapSet(map, key, value) ==
  [k \in DOMAIN map \cup {key} |-> IF k = key THEN value ELSE map[k]]

DropLast(list, n) == SubSeq(list, 1, Len(list) - n)

\* Array.prototype.slice(n)
DropFirst(list, n) == SubSeq(list, n + 1, Len(list))

DedupSignatures(session) ==
  [messageSignatures |-> session.messageSignatures,
   tokenSignatures |-> session.tokenSignatures]

SortAllSessions ==
  /\ pc = "sort"
  /\ sessions' = SortSessions(sessions)
  /\ pc' = "dedup"
  /\ UNCHANGED <<yearDir, files, parseVars, mergeVars>>

ParentOfByOwnId(session, byId) ==
  IF session.sessionId # <<>> /\ session.sessionId \in DOMAIN byId
    THEN <<byId[session.sessionId]>>
    ELSE <<>>

\* sessionsById.get(session.forkedFromId): <<>> or <<parent>>
ParentOf(session, byId) ==
  IF session.forkedFromId # <<>> /\ session.forkedFromId \in DOMAIN byId
    THEN <<byId[session.forkedFromId]>>
    ELSE <<>>

MessageSequences(candidates) ==
  [i \in 1..Len(candidates) |-> candidates[i].messageSignatures]
TokenSequences(candidates) ==
  [i \in 1..Len(candidates) |-> candidates[i].tokenSignatures]

StartIndicesCoupled(session, byId, byCwd) ==
  LET parentSession == ParentOf(session, byId)
      candidates == IF parentSession # <<>> THEN parentSession
                    ELSE IF session.cwd # <<>> THEN MapGet(byCwd, session.cwd, <<>>)
                    ELSE <<>>
      messageOverlap ==
        findLargestPrefixOverlap(session.messageSignatures, MessageSequences(candidates))
      tokenOverlap ==
        findLargestPrefixOverlap(session.tokenSignatures, TokenSequences(candidates))
  IN IF \/ parentSession # <<>>
        \/ /\ shouldApplyForkDedup(messageOverlap, Len(session.messageSignatures))
           /\ shouldApplyForkDedup(tokenOverlap, Len(session.tokenSignatures))
       THEN [message |-> messageOverlap, token |-> tokenOverlap]
       ELSE [message |-> 0, token |-> 0]

\* [message |-> messageStartIndex, token |-> tokenStartIndex] of one session
StartIndices(session, byId, byCwd) ==
  LET parentSession == ParentOf(session, byId)
  IN IF parentSession # <<>>
       THEN [message |-> commonPrefixLength(session.messageSignatures,
                                            parentSession[1].messageSignatures),
             token |-> commonPrefixLength(session.tokenSignatures,
                                          parentSession[1].tokenSignatures)]
     ELSE IF session.cwd # <<>>
       THEN LET previousSessions == MapGet(byCwd, session.cwd, <<>>)
                messageOverlap ==
                  findLargestPrefixOverlap(session.messageSignatures,
                                           MessageSequences(previousSessions))
                tokenOverlap ==
                  findLargestPrefixOverlap(session.tokenSignatures,
                                           TokenSequences(previousSessions))
            IN [message |->
                  IF shouldApplyForkDedup(messageOverlap, Len(session.messageSignatures))
                    THEN messageOverlap ELSE 0,
                token |->
                  IF shouldApplyForkDedup(tokenOverlap, Len(session.tokenSignatures))
                    THEN tokenOverlap ELSE 0]
     ELSE [message |-> 0, token |-> 0]

LaterDate(earliest, date) ==
  IF date # <<>> /\ (earliest = <<>> \/ date[1] > earliest[1]) THEN date ELSE earliest

\* if (session.sessionDate && (!earliestSessionDate || session.sessionDate <
\* earliestSessionDate)) earliestSessionDate = session.sessionDate
EarlierDate(earliest, date) ==
  IF date # <<>> /\ (earliest = <<>> \/ date[1] < earliest[1]) THEN date ELSE earliest

RECURSIVE CountDaysOnce(_, _)
CountDaysOnce(activity, messages) ==
  IF messages = <<>> THEN activity
  ELSE CountDaysOnce(MapSet(activity, formatDateKey(Head(messages).timestamp), 1),
                     Tail(messages))

RECURSIVE CountDays(_, _)
\* the loop over the kept messages: one increment of its day per message
CountDays(activity, messages) ==
  IF messages = <<>> THEN activity
  ELSE LET dateKey == formatDateKey(Head(messages).timestamp)
       IN CountDays(MapSet(activity, dateKey, MapGet(activity, dateKey, 0) + 1),
                    Tail(messages))

\* one iteration of the for loop over the sorted sessions
ProcessSession ==
  /\ pc = "dedup"
  /\ idx <= Len(sessions)
  /\ LET session == sessions[idx]
         parentSession == ParentOf(session, sessionsById)
         start == StartIndices(session, sessionsById, priorSessionsByCwd)
         keptMessages == DropFirst(session.userMessages, start.message)
         keptEvents == DropFirst(session.events, start.token)
     IN /\ projects' = IF session.cwd # <<>> THEN projects \cup {session.cwd}
                       ELSE projects
        /\ earliestSessionDate' = EarlierDate(earliestSessionDate, session.sessionDate)
        /\ priorSessionsByCwd' =
             IF parentSession = <<>> /\ session.cwd # <<>>
               THEN MapSet(priorSessionsByCwd, session.cwd,
                           Append(MapGet(priorSessionsByCwd, session.cwd, <<>>),
                                  DedupSignatures(session)))
               ELSE priorSessionsByCwd
        /\ totalMessages' = totalMessages + Len(keptMessages)
        /\ dailyActivity' = CountDays(dailyActivity, keptMessages)
        /\ events' = events \o keptEvents
        /\ sessionsById' =
             IF session.sessionId # <<>>
               THEN MapSet(sessionsById, session.sessionId, DedupSignatures(session))
               ELSE sessionsById
        /\ merged' = Append(merged,
                            [filePath |-> session.filePath,
                             messageStartIndex |-> start.message,
                             tokenStartIndex |-> start.token,
                             messages |-> keptMessages,
                             events |-> keptEvents])
  /\ idx' = idx + 1
  /\ UNCHANGED <<yearDir, files, sessions, pc, parseVars, totalSessions>>

CountNonEmptySessions ==
  Cardinality({i \in 1..Len(merged) :
                 merged[i].messages # <<>> \/ merged[i].events # <<>>})

CountDiscoveredFiles == Len(files)

\* the final sort of the events and the return
Finish ==
  /\ pc = "dedup"
  /\ idx > Len(sessions)
  /\ events' = SortEvents(events)
  /\ totalSessions' = CountDiscoveredFiles
  /\ pc' = "done"
  /\ UNCHANGED <<yearDir, files, sessions, parseVars, idx, dailyActivity, projects,
                 totalMessages, earliestSessionDate, priorSessionsByCwd,
                 sessionsById, merged>>

-----------------------------------------------------------------------------
(* Discovery: listCodexSessionFiles walks year/month/day *)

\* a Dirent and what readdir of it gives: readable is FALSE when readdir
\* throws (missing, not permitted, not a directory)
Dirent(name, isDirectory, isFile, jsonl, readable, entries) ==
  [name |-> name, isDirectory |-> isDirectory, isFile |-> isFile,
   jsonl |-> jsonl, readable |-> readable, entries |-> entries]

Dir(name, entries) == Dirent(name, TRUE, FALSE, FALSE, TRUE, entries)
UnreadableDir(name) == Dirent(name, TRUE, FALSE, FALSE, FALSE, <<>>)
MissingDir(name) == Dirent(name, FALSE, FALSE, FALSE, FALSE, <<>>)
JsonlFile(name) == Dirent(name, FALSE, TRUE, TRUE, FALSE, <<>>)
OtherFile(name) == Dirent(name, FALSE, TRUE, FALSE, FALSE, <<>>)
JsonlDir(name) == Dirent(name, TRUE, FALSE, TRUE, TRUE, <<>>)

\* path.join: names are digits, a path is the number they spell
join(dir, name) == dir * 10 + name

RECURSIVE Concat(_)
Concat(lists) == IF lists = <<>> THEN <<>> ELSE Head(lists) \o Concat(Tail(lists))

IsDirectory(e) == e.isDirectory
IsSessionFile(e) == e.isFile /\ e.jsonl

DayFiles(dayPath, day) ==
  IF ~day.readable THEN <<>>
  ELSE LET found == SelectSeq(day.entries, IsSessionFile)
       IN [i \in 1..Len(found) |-> join(dayPath, found[i].name)]

MonthFiles(monthPath, month) ==
  IF ~month.readable THEN <<>>
  ELSE LET dayDirs == SelectSeq(month.entries, IsDirectory)
       IN Concat([i \in 1..Len(dayDirs) |->
                    DayFiles(join(monthPath, dayDirs[i].name), dayDirs[i])])

AllReadable(dirs) == \A i \in 1..Len(dirs) : dirs[i].readable

listCodexSessionFilesOrNothing(year) ==
  LET monthDirs == SelectSeq(year.entries, IsDirectory)
  IN IF /\ year.readable
        /\ AllReadable(monthDirs)
        /\ \A i \in 1..Len(monthDirs) :
             AllReadable(SelectSeq(monthDirs[i].entries, IsDirectory))
       THEN Concat([i \in 1..Len(monthDirs) |->
                      MonthFiles(join(year.name, monthDirs[i].name), monthDirs[i])])
       ELSE <<>>

listCodexSessionFiles(year) ==
  IF ~year.readable THEN <<>>
  ELSE LET monthDirs == SelectSeq(year.entries, IsDirectory)
       IN Concat([i \in 1..Len(monthDirs) |->
                    MonthFiles(join(year.name, monthDirs[i].name), monthDirs[i])])

\* const files = await listCodexSessionFiles(year); with no file the loop
\* over the files does not run
ListFiles ==
  /\ pc = "list"
  /\ files' = listCodexSessionFiles(yearDir)
  /\ pc' = IF files' = <<>> THEN "sort" ELSE "parse"
  /\ UNCHANGED <<yearDir, sessions, parseVars, mergeVars>>

\* a year directory with one month and one day that lists the given paths
DirectoryOf(paths) ==
  Dir(0, <<Dir(0, <<Dir(0, [i \in 1..Len(paths) |-> JsonlFile(paths[i])])>>)>>)

-----------------------------------------------------------------------------
(* Inputs of the merge: families of parsed session sets, in discovery order. *)
(* Every record carries uid, a history tag naming the underlying log record *)
(* (the file and position at which it was first written); the lines a fork   *)
(* copies from its parent keep the parent's uid, timestamp and content.      *)
(* No operator of the program reads uid.                                     *)

MaxLen == 5        \* longest signature sequence of a session
NumFiles == 3      \* number of files in the ordering family
MaxTime == 3       \* latest session date in the ordering family

Range(f) == {f[i] : i \in DOMAIN f}

\* a^i b^j
Letters(i, j) == [k \in 1..(i + j) |-> IF k <= i THEN "a" ELSE "b"]
Repeat(letter, n) == [k \in 1..n |-> letter]

TimeOf(uid) == uid[1] + uid[2] - 1

MessageOf(letter, uid) ==
  [timestamp |-> TimeOf(uid),
   signature |-> createUserMessageSignature(
                   [EmptyPayload EXCEPT !.type = "user_message", !.message = <<letter>>]),
   uid |-> uid]

EventOf(letter, uid) ==
  LET delta == convertToDelta(
                 [input_tokens |-> IF letter = "a" THEN 1 ELSE 2,
                  cached_input_tokens |-> 0, output_tokens |-> 1,
                  reasoning_output_tokens |-> 0, total_tokens |-> 0])
  IN [timestamp |-> TimeOf(uid), model |-> <<"gpt-5.2">>,
      inputTokens |-> delta.inputTokens,
      cachedInputTokens |-> delta.cachedInputTokens,
      outputTokens |-> delta.outputTokens,
      reasoningOutputTokens |-> delta.reasoningOutputTokens,
      totalTokens |-> delta.totalTokens, uid |-> uid]

\* the records first written in file path at positions offset+1.., one per letter
Records(stream, letters, path, offset) ==
  [k \in 1..Len(letters) |->
     IF stream = "message" THEN MessageOf(letters[k], <<path, offset + k>>)
     ELSE EventOf(letters[k], <<path, offset + k>>)]

\* a session whose varied stream is given and whose other stream is fixed
SessionOf(stream, path, cwd, id, forkedFrom, date, varied, fixed) ==
  IF stream = "message"
    THEN SessionUsage(path, cwd, id, forkedFrom, date, varied, fixed)
    ELSE SessionUsage(path, cwd, id, forkedFrom, date, fixed, varied)

OtherStream(stream) == IF stream = "message" THEN "token" ELSE "message"
Streams == {"message", "token"}

\* Ordering family: NumFiles sessions with any dates, discovered in any order.
Orderings(n) ==
  {f \in [1..n -> 1..n] : \A i, j \in 1..n : i # j => f[i] # f[j]}

OrderSession(path, date) ==
  SessionUsage(path, <<>>, <<>>, <<>>, date,
               IF path = 2 THEN <<>> ELSE Records("message", <<"a">>, path, 0),
               IF path = 2 THEN <<>>
               ELSE Records("token", <<"a", "b">>, NumFiles + 1 - path, 0))

OrderFamily(list) ==
  \E perm \in Orderings(NumFiles),
     dates \in [1..NumFiles -> {<<>>} \cup {<<t>> : t \in 1..MaxTime}] :
    list = [i \in 1..NumFiles |-> OrderSession(perm[i], dates[i])]

\* Event-time family: two sessions whose events carry any timestamps.
TimedEvents(path, times) ==
  [k \in 1..Len(times) |-> [EventOf("a", <<path, k>>) EXCEPT !.timestamp = times[k]]]

TimeSequences == UNION {[1..n -> 1..MaxTime] : n \in 0..2}

EventTimeFamily(list) ==
  \E t1 \in TimeSequences, t2 \in TimeSequences :
    list = <<SessionUsage(2, <<>>, <<>>, <<>>, <<2>>, <<>>, TimedEvents(2, t2)),
             SessionUsage(1, <<>>, <<>>, <<>>, <<1>>, <<>>, TimedEvents(1, t1))>>

\* Fork family: a parent P (file 1), optionally another earlier session X
\* (file 2) and a child C (file 3) that starts with a copy of the first copied
\* records of P and goes on with fresh records of its own; discovered C, X, P.
ForkScenario(stream, np, copied, fresh, letter, forkedFrom, cwd, date, other) ==
  LET fixedStream == OtherStream(stream)
      variedP == Records(stream, Repeat("a", np), 1, 0)
      fixedP == Records(fixedStream, <<"a", "a">>, 1, 0)
      variedC == SubSeq(variedP, 1, copied)
                   \o Records(stream, Repeat(letter, fresh), 3, copied)
      fixedC == SubSeq(fixedP, 1, 1)
      P == SessionOf(stream, 1, <<"d1">>, <<"s1">>, <<>>, <<2>>, variedP, fixedP)
      C == SessionOf(stream, 3, cwd, <<"s3">>, forkedFrom, date, variedC, fixedC)
      X == IF other = "candidate"
             THEN SessionOf(stream, 2, <<"d1">>, <<>>, <<>>, <<3>>,
                            Records(stream, Repeat("b", 3), 2, 0), <<>>)
             ELSE SessionOf(stream, 2, <<"d1">>, <<"s1">>, <<>>, <<3>>,
                            Records(stream, <<"a">>, 2, 0), <<>>)
  IN IF other = "none" THEN <<C, P>> ELSE <<C, X, P>>

ForkFamily(list) ==
  \E stream \in Streams, np \in 0..MaxLen :
    \E copied \in 0..np :
      \E fresh \in 0..(MaxLen - copied),
         letter \in {"a", "b"},
         forkedFrom \in {<<>>, <<"s1">>, <<"s9">>},
         cwd \in {<<>>, <<"d1">>, <<"d2">>},
         date \in {<<1>>, <<4>>},
         other \in {"none", "candidate", "sameId"} :
        list = ForkScenario(stream, np, copied, fresh, letter, forkedFrom, cwd,
                            date, other)

\* Same-directory family: three sessions A, B, S (files 1, 2, 3) that declare
\* no parent; A and B share a directory, S is in it or in another one.
DirectoryScenario(stream, na, ib, jb, is, js, cwd) ==
  LET fixedStream == OtherStream(stream)
      A == SessionOf(stream, 1, <<"d1">>, <<>>, <<>>, <<1>>,
                     Records(stream, Repeat("a", na), 1, 0),
                     Records(fixedStream, <<"a", "a", "a">>, 1, 0))
      B == SessionOf(stream, 2, <<"d1">>, <<>>, <<>>, <<2>>,
                     Records(stream, Letters(ib, jb), 2, 0), <<>>)
      S == SessionOf(stream, 3, cwd, <<>>, <<>>, <<3>>,
                     Records(stream, Letters(is, js), 3, 0),
                     Records(fixedStream, <<"a", "a", "a">>, 3, 0))
  IN <<S, B, A>>

DirectoryFamily(list) ==
  \E stream \in Streams, na \in 0..MaxLen, ib \in 0..MaxLen, is \in 0..MaxLen :
    \E jb \in 0..(MaxLen - ib), js \in 0..(MaxLen - is),
       cwd \in {<<"d1">>, <<"d2">>} :
      list = DirectoryScenario(stream, na, ib, jb, is, js, cwd)

ParsedSessionSet(list) ==
  \/ OrderFamily(list)
  \/ EventTimeFamily(list)
  \/ ForkFamily(list)
  \/ DirectoryFamily(list)

-----------------------------------------------------------------------------
(* The merge of any parsed session set *)

Init ==
  /\ ParsedSessionSet(sessions)
  /\ files = [i \in 1..Len(sessions) |-> sessions[i].filePath]
  /\ yearDir = DirectoryOf(files)
  /\ pc = "sort"
  /\ FreshParse
  /\ FreshMerge

Next == SortAllSessions \/ ProcessSession \/ Finish

Spec == Init /\ [][Next]_vars

-----------------------------------------------------------------------------
(* The parse of one file, line by line *)

ParseInit ==
  /\ files = <<1>>
  /\ yearDir = DirectoryOf(files)
  /\ sessions = <<>>
  /\ pc = "parse"
  /\ FreshParse
  /\ FreshMerge

Timestamped(payload) == JsonLine("event_msg", <<1>>, payload)
Untimestamped(payload) == JsonLine("event_msg", <<>>, payload)

TokenPayload(info) == [EmptyPayload EXCEPT !.type = "token_count", !.info = info]
UsageInfo(last, total) == Info(<<>>, <<>>, <<>>, last, total)

MetaLine ==
  JsonLine("session_meta", <<2>>,
           [EmptyPayload EXCEPT !.timestamp = <<1>>, !.cwd = <<"d1">>,
                                !.id = <<"s1">>])
UserLine ==
  Timestamped([EmptyPayload EXCEPT !.type = "user_message", !.message = <<"a">>])
OtherEventLine == Timestamped([EmptyPayload EXCEPT !.type = "agent_message"])
TurnContextLine(model) == JsonLine("turn_context", <<1>>, [EmptyPayload EXCEPT !.model = model])

\* Usage objects: the spec's cumulative example (input 100, output 50, then
\* 150 and 80, then input drops to 120), zero counters with a total, a cached
\* counter above a zero input counter, negative counters, and fields that are
\* not numbers.
UsageA == Usage(JNum(100), JNum(20), JNum(50), JNum(10), JNum(0))
UsageB == Usage(JNum(150), JNum(30), JNum(80), JNum(10), JNum(230))
UsageC == Usage(JNum(120), JNum(130), JNum(90), JNum(5), JNum(200))
UsageZeroWithTotal == Usage(JNum(0), JNum(0), JNum(0), JNum(0), JNum(5))
UsageCachedOnly == Usage(JNum(0), JNum(5), JNum(0), JNum(0), JNum(7))
UsageNegative == Usage(JNum(0 - 1), JNum(0 - 2), JNum(1), JNum(0), JNum(0))
UsageNotNumbers ==
  [Usage(JOther, JNull, JNum(2), JNull, JOther)
     EXCEPT !.cache_read_input_tokens = JNum(1)]

UsageObjects ==
  {UsageA, UsageB, UsageC, UsageZeroWithTotal, UsageCachedOnly, UsageNegative,
   UsageNotNumbers}

UsageLines ==
  {Timestamped(TokenPayload(UsageInfo(u, NoUsage))) : u \in UsageObjects}
    \cup {Timestamped(TokenPayload(UsageInfo(NoUsage, u))) : u \in UsageObjects}
    \cup {Timestamped(TokenPayload(UsageInfo(UsageA, UsageB))),
          Timestamped(TokenPayload(UsageInfo(UsageZeroWithTotal, UsageA))),
          Timestamped(TokenPayload(UsageInfo(NoUsage, NoUsage))),
          Timestamped(TokenPayload(NoInfo)),
          Untimestamped(TokenPayload(UsageInfo(NoUsage, UsageA))),
          MetaLine, UserLine, OtherEventLine, BlankLine,
          TurnContextLine(<<"gpt-5.2">>)}

\* Model placements of a token_count record with a non-zero usage
ModelPayload(infoModel, infoModelName, infoMetadataModel, model, metadataModel) ==
  [EmptyPayload EXCEPT
     !.type = "token_count",
     !.info = Info(infoModel, infoModelName, infoMetadataModel, UsageA, NoUsage),
     !.model = model, !.metadata_model = metadataModel]

ModelLines ==
  {Timestamped(ModelPayload(<<>>, <<>>, <<>>, <<>>, <<>>)),
   Timestamped(ModelPayload(<<"m1">>, <<>>, <<>>, <<>>, <<>>)),
   Timestamped(ModelPayload(<<>>, <<"m2">>, <<>>, <<>>, <<>>)),
   Timestamped(ModelPayload(<<>>, <<>>, <<"m3">>, <<>>, <<>>)),
   Timestamped(ModelPayload(<<>>, <<>>, <<>>, <<"m4">>, <<>>)),
   Timestamped(ModelPayload(<<>>, <<>>, <<>>, <<>>, <<"m5">>)),
   Timestamped(ModelPayload(<<" ">>, <<"m2">>, <<>>, <<"m4">>, <<>>)),
   Timestamped(ModelPayload(<<" ", "\t">>, <<>>, <<>>, <<>>, <<" ">>)),
   Timestamped(ModelPayload(<<>>, <<>>, <<>>, <<" ", "gpt-5", " ">>, <<"m5">>)),
   Timestamped([ModelPayload(<<"m1">>, <<>>, <<>>, <<>>, <<>>)
                  EXCEPT !.info.last_token_usage = UsageZeroWithTotal]),
   Timestamped([ModelPayload(<<"m1">>, <<>>, <<>>, <<>>, <<>>)
                  EXCEPT !.info.last_token_usage = NoUsage]),
   Untimestamped(ModelPayload(<<"m1">>, <<>>, <<>>, <<>>, <<>>)),
   TurnContextLine(<<"t1">>),
   TurnContextLine(<<" ">>),
   JsonLine("turn_context", <<>>,
            [EmptyPayload EXCEPT !.info = Info(<<>>, <<"t2">>, <<>>, NoUsage, NoUsage),
                                 !.model = <<"t1">>]),
   JsonLine("turn_context", <<1>>, NoPayload),
   MetaLine, UserLine, GarbageLine}

ParseLine(line) ==
  \/ SkipLine(line)
  \/ SessionMeta(line)
  \/ TurnContext(line)
  \/ UserMessage(line)
  \/ TokenCount(line)

UsageNext == (\E line \in UsageLines : ParseLine(line)) \/ EndOfFile
ModelNext == (\E line \in ModelLines : ParseLine(line)) \/ EndOfFile

\* the parse of a file of usage records
SpecUsage == ParseInit /\ [][UsageNext]_vars

\* the parse of a file whose records place the model in every way
SpecModel == ParseInit /\ [][ModelNext]_vars

-----------------------------------------------------------------------------
(* The whole collection over a directory tree of empty session files *)

MaxMonths == 2     \* month entries of the year directory
MaxDays == 2       \* day entries of a month directory

Named(e, name) == [e EXCEPT !.name = name]

DayShapes ==
  {UnreadableDir(0),
   Dir(0, <<OtherFile(1), JsonlDir(2), JsonlFile(3)>>)}

\* a file where a month is expected, a month that cannot be read, a month
\* with a file where a day is expected, and months of days
MonthShapes ==
  {OtherFile(0), UnreadableDir(0),
   Dir(0, <<OtherFile(1), Dir(2, <<JsonlFile(1), JsonlFile(2)>>)>>)}
    \cup UNION {{Dir(0, [i \in 1..n |-> Named(days[i], i)]) :
                   days \in [1..n -> DayShapes]} : n \in 0..MaxDays}

YearDirs ==
  {MissingDir(0), UnreadableDir(0)}
    \cup UNION {{Dir(0, [i \in 1..n |-> Named(months[i], i)]) :
                   months \in [1..n -> MonthShapes]} : n \in 0..MaxMonths}

ListInit ==
  /\ yearDir \in YearDirs
  /\ files = <<>>
  /\ sessions = <<>>
  /\ pc = "list"
  /\ FreshParse
  /\ FreshMerge

ListNext == ListFiles \/ EndOfFile \/ SortAllSessions \/ ProcessSession \/ Finish

SpecList == ListInit /\ [][ListNext]_vars

-----------------------------------------------------------------------------
\* token_count records whose model and counters could be confused in a
\* signature: models that contain the delimiter or end in a digit, counters
\* of one and two digits, and the same record at two instants
SignatureLine(timestamp, model, input, output, total) ==
  JsonLine("event_msg", <<timestamp>>,
           [TokenPayload(UsageInfo(Usage(JNum(input), JNum(0), JNum(output),
                                         JNum(0), JNum(total)), NoUsage))
              EXCEPT !.model = model])

SignatureLines ==
  {SignatureLine(1, <<"a">>, 1, 2, 3),
   SignatureLine(2, <<"a">>, 1, 2, 3),
   SignatureLine(1, <<" ", "a", " ">>, 1, 2, 3),
   SignatureLine(1, <<"a">>, 1, 2, 0),
   SignatureLine(1, <<"a">>, 12, 2, 3),
   SignatureLine(1, <<"a", "1">>, 2, 2, 3),
   SignatureLine(1, <<"a", "|", "1">>, 2, 2, 3),
   SignatureLine(1, <<"a", "|", "1">>, 0, 2, 3),
   SignatureLine(1, <<"a", "|">>, 1, 2, 3),
   SignatureLine(1, <<"a", "|", "1", "|", "0">>, 2, 3, 5),
   SignatureLine(1, <<>>, 1, 2, 3),
   MetaLine, UserLine, BlankLine, TurnContextLine(<<"a", "|", "1">>)}

SignatureNext == (\E line \in SignatureLines : ParseLine(line)) \/ EndOfFile

\* the parse of a file of usage records with confusable models and counters
SpecSignature == ParseInit /\ [][SignatureNext]_vars

\* session_meta records: top-level timestamp, payload.timestamp, cwd, id and
\* forked_from_id present, blank or absent
Meta(timestamp, payloadTimestamp, cwd, id, forkedFrom) ==
  JsonLine("session_meta", timestamp,
           [EmptyPayload EXCEPT !.timestamp = payloadTimestamp, !.cwd = cwd,
                                !.id = id, !.forked_from_id = forkedFrom])

\* a payload that carries every field any branch reads
FullPayload(type) ==
  [EmptyPayload EXCEPT
     !.type = type, !.timestamp = <<2>>, !.cwd = <<"d9">>, !.id = <<"s9">>,
     !.forked_from_id = <<"p9">>, !.info = UsageInfo(UsageA, UsageB),
     !.model = <<"m9">>, !.message = <<"z">>]

MetaLines ==
  {BlankLine, GarbageLine,
   JsonLine("", <<1>>, NoPayload),
   JsonLine("response_item", <<1>>, FullPayload("token_count")),
   JsonLine("event_msg", <<1>>, FullPayload("agent_message")),
   JsonLine("event_msg", <<1>>, NoPayload),
   Meta(<<2>>, <<>>, <<"d1">>, <<"s1">>, <<>>),
   Meta(<<3>>, <<1>>, <<>>, <<"s2">>, <<"p1">>),
   Meta(<<1>>, <<2>>, <<"d2">>, <<" ">>, <<"p2">>),
   Meta(<<1>>, <<0>>, <<" ">>, <<>>, <<>>),
   Meta(<<>>, <<>>, <<>>, <<" ", "s3", " ">>, <<" ">>),
   Meta(<<3>>, <<>>, <<"d2">>, <<>>, <<" ", "p3">>),
   JsonLine("session_meta", <<1>>, NoPayload),
   UserLine,
   JsonLine("event_msg", <<>>, FullPayload("user_message")),
   JsonLine("event_msg", <<0>>, FullPayload("user_message")),
   Timestamped(TokenPayload(UsageInfo(UsageA, NoUsage))),
   JsonLine("event_msg", <<>>, FullPayload("token_count")),
   JsonLine("event_msg", <<0>>, FullPayload("token_count")),
   TurnContextLine(<<"t1">>)}

MetaNext == (\E line \in MetaLines : ParseLine(line)) \/ EndOfFile

\* the parse of a file of session_meta records, ignored lines and records
\* without a timestamp
SpecMeta == ParseInit /\ [][MetaNext]_vars

-----------------------------------------------------------------------------
(* Vocabulary of the properties *)

RECURSIVE Flatten(_)
Flatten(lists) == IF lists = <<>> THEN <<>> ELSE Head(lists) \o Flatten(Tail(lists))

\* the messages counted so far and the events pushed so far, session by session
CountedMessages == Flatten([i \in 1..Len(merged) |-> merged[i].messages])
PushedEvents == Flatten([i \in 1..Len(merged) |-> merged[i].events])

NoRepeatedUid(list) ==
  \A i, j \in 1..Len(list) : i # j => list[i].uid # list[j].uid

\* the longest common prefix, by its definition
LongestCommonPrefix(a, b) ==
  CHOOSE n \in 0..Min(Len(a), Len(b)) :
    /\ SubSeq(a, 1, n) = SubSeq(b, 1, n)
    /\ n < Min(Len(a), Len(b)) => a[n + 1] # b[n + 1]

Merging == pc \in {"dedup", "done"}

\* positions, in processing order, of the earlier sessions that carry the id
\* session k names as its parent
EarlierWithId(k) ==
  {j \in 1..(k - 1) :
     sessions[k].forkedFromId # <<>> /\ sessions[j].sessionId = sessions[k].forkedFromId}

MaxOf(S) == CHOOSE n \in S : \A m \in S : m <= n

\* session k holds records first written in another file
IsFork(k) ==
  \/ \E i \in 1..Len(sessions[k].userMessages) :
       sessions[k].userMessages[i].uid[1] # sessions[k].filePath
  \/ \E i \in 1..Len(sessions[k].events) :
       sessions[k].events[i].uid[1] # sessions[k].filePath

\* every record session k did not write itself is a copy of the record at the
\* same position of session j
CopiedFrom(k, j) ==
  /\ \A i \in 1..Len(sessions[k].userMessages) :
       sessions[k].userMessages[i].uid[1] # sessions[k].filePath
         => /\ i <= Len(sessions[j].userMessages)
            /\ sessions[j].userMessages[i] = sessions[k].userMessages[i]
  /\ \A i \in 1..Len(sessions[k].events) :
       sessions[k].events[i].uid[1] # sessions[k].filePath
         => /\ i <= Len(sessions[j].events)
            /\ sessions[j].events[i] = sessions[k].events[i]

\* session k names the session it was copied from, which sorts before it and
\* whose id no other session carries
DeclaredFork(k) ==
  \E j \in 1..(k - 1) :
    /\ sessions[k].forkedFromId # <<>>
    /\ sessions[j].sessionId = sessions[k].forkedFromId
    /\ \A i \in 1..Len(sessions) : i # j => sessions[i].sessionId # sessions[j].sessionId
    /\ CopiedFrom(k, j)

EveryForkDeclared == \A k \in 1..Len(sessions) : IsFork(k) => DeclaredFork(k)

MessagesOfDay(day) ==
  Cardinality({i \in 1..Len(CountedMessages) :
                 formatDateKey(CountedMessages[i].timestamp) = day})

CountsMatchMessages ==
  /\ totalMessages = Len(CountedMessages)
  /\ DOMAIN dailyActivity =
       {formatDateKey(CountedMessages[i].timestamp) : i \in 1..Len(CountedMessages)}
  /\ \A day \in DOMAIN dailyActivity : dailyActivity[day] = MessagesOfDay(day)

EachRecordOnce ==
  /\ NoRepeatedUid(events)
  /\ NoRepeatedUid(CountedMessages)
  /\ CountsMatchMessages

-----------------------------------------------------------------------------
(* C1 *)

\* C1 as stated: whatever forks the files hold, the returned events hold each
\* underlying usage event at most once and each underlying user message is
\* counted at most once in totalMessages and dailyActivity.
C1_EveryForkDeduplicated == pc = "done" => EachRecordOnce

\* C1 amended: when every fork names, as forked_from_id, the id of the session
\* it was copied from, no other session carries that id and that session sorts
\* before the fork, the returned events hold each underlying usage event at
\* most once and each underlying user message is counted at most once.
C1_DeclaredForksDeduplicated ==
  (pc = "done" /\ EveryForkDeclared) => EachRecordOnce

\* a declared fork that copied three messages of its parent and added its own
C1_Witness ==
  /\ pc = "done"
  /\ EveryForkDeclared
  /\ \E k \in 1..Len(sessions) :
       /\ IsFork(k)
       /\ Len(sessions[k].userMessages) >= 4
       /\ sessions[k].userMessages[3].uid[1] # sessions[k].filePath
       /\ merged[k].messages # <<>>
  /\ totalMessages >= 4

-----------------------------------------------------------------------------
(* C2 *)

\* C2: a session whose forkedFromId is the id of an earlier processed session
\* contributes exactly its messages and events after the longest common prefix
\* of its signature sequence with that session's (the latest one carrying the
\* id), with no minimum length and whatever the same directory holds.
C2_ExplicitParentTrim ==
  Merging =>
    \A k \in 1..Len(merged) :
      EarlierWithId(k) # {} =>
        LET session == sessions[k]
            parent == sessions[MaxOf(EarlierWithId(k))]
            km == LongestCommonPrefix(session.messageSignatures, parent.messageSignatures)
            kt == LongestCommonPrefix(session.tokenSignatures, parent.tokenSignatures)
        IN /\ merged[k].messageStartIndex = km
           /\ merged[k].tokenStartIndex = kt
           /\ merged[k].messages = SubSeq(session.userMessages, km + 1,
                                          Len(session.userMessages))
           /\ merged[k].events = SubSeq(session.events, kt + 1, Len(session.events))

\* the parent has messages m1 m2 m3, the child m1 m2 m3 m4 and contributes m4
C2_Witness ==
  /\ Merging
  /\ \E k \in 1..Len(merged) :
       /\ EarlierWithId(k) # {}
       /\ Len(sessions[MaxOf(EarlierWithId(k))].userMessages) = 3
       /\ Len(sessions[k].userMessages) = 4
       /\ merged[k].messages = <<sessions[k].userMessages[4]>>

-----------------------------------------------------------------------------
(* C3 *)

NoParentFound(session) ==
  session.forkedFromId = <<>> \/ session.forkedFromId \notin DOMAIN sessionsById

\* the largest common prefix of a sequence with any candidate sequence
LargestOverlap(sequence, candidateSequences) ==
  MaxOf({0} \cup {LongestCommonPrefix(sequence, candidateSequences[i]) :
                    i \in 1..Len(candidateSequences)})

GuardedOverlap(overlap, length) ==
  IF overlap >= 3 /\ (length > 4 \/ overlap = length) THEN overlap ELSE 0

\* C3: for a session with a working directory and no explicit parent found,
\* the number of leading messages discarded is L if L >= 3 and (the sequence
\* has more than 4 elements or L is its length), else 0, where L is the largest
\* common prefix with the candidates recorded for the directory; likewise, and
\* separately, for the token events.
C3_HeuristicTrim ==
  [][(/\ pc = "dedup"
      /\ idx <= Len(sessions)
      /\ sessions[idx].cwd # <<>>
      /\ NoParentFound(sessions[idx]))
     => LET session == sessions[idx]
            candidates == MapGet(priorSessionsByCwd, session.cwd, <<>>)
            lm == LargestOverlap(session.messageSignatures, MessageSequences(candidates))
            lt == LargestOverlap(session.tokenSignatures, TokenSequences(candidates))
        IN /\ Len(merged') = idx
           /\ merged'[idx].messageStartIndex =
                GuardedOverlap(lm, Len(session.messageSignatures))
           /\ merged'[idx].tokenStartIndex =
                GuardedOverlap(lt, Len(session.tokenSignatures))
           /\ merged'[idx].messages =
                SubSeq(session.userMessages, merged'[idx].messageStartIndex + 1,
                       Len(session.userMessages))
           /\ merged'[idx].events =
                SubSeq(session.events, merged'[idx].tokenStartIndex + 1,
                       Len(session.events))]_vars

\* a session of five messages loses three to the heuristic, with two candidates
\* recorded for its directory, and keeps all its token events
C3_Witness ==
  /\ Merging
  /\ Len(merged) = 3
  /\ sessions[3].forkedFromId = <<>>
  /\ sessions[3].cwd # <<>>
  /\ Len(MapGet(priorSessionsByCwd, sessions[3].cwd, <<>>)) = 3
  /\ Len(sessions[3].userMessages) = 5
  /\ merged[3].messageStartIndex = 3
  /\ merged[3].tokenStartIndex = 0
  /\ sessions[3].events # <<>>

-----------------------------------------------------------------------------
(* C4 *)

\* a sorts strictly before b: dated before undated, earlier date first, and
\* the smaller path first among equal or absent dates
SortsBefore(a, b) ==
  \/ a.sessionDate # <<>> /\ b.sessionDate = <<>>
  \/ a.sessionDate # <<>> /\ b.sessionDate # <<>> /\ a.sessionDate[1] < b.sessionDate[1]
  \/ a.sessionDate = b.sessionDate /\ a.filePath < b.filePath

SessionAt(path) == CHOOSE session \in Range(sessions) : session.filePath = path

\* C4: whatever the discovery order, the sessions are processed in ascending
\* order of session date, undated sessions after all dated ones, ties broken
\* by ascending file path; every discovered file is processed exactly once.
C4_ProcessingOrder ==
  Merging =>
    /\ Len(sessions) = Len(files)
    /\ {sessions[i].filePath : i \in 1..Len(sessions)} = Range(files)
    /\ \A i, j \in 1..Len(sessions) : i < j => SortsBefore(sessions[i], sessions[j])
    /\ Len(merged) <= Len(sessions)
    /\ \A i \in 1..Len(merged) : merged[i].filePath = sessions[i].filePath
    /\ pc = "done" => Len(merged) = Len(sessions)

\* files discovered with dates 2, 1, 3 were processed second, first, third
C4_Witness ==
  /\ pc = "done"
  /\ Len(files) = 3
  /\ SessionAt(files[1]).sessionDate = <<2>>
  /\ SessionAt(files[2]).sessionDate = <<1>>
  /\ SessionAt(files[3]).sessionDate = <<3>>
  /\ <<merged[1].filePath, merged[2].filePath, merged[3].filePath>>
       = <<files[2], files[1], files[3]>>

-----------------------------------------------------------------------------
(* C5 *)

InTimeOrder(list) ==
  \A i, j \in 1..Len(list) : i < j => list[i].timestamp <= list[j].timestamp

\* C5: the returned events are in non-decreasing timestamp order
C5_EventsSorted == pc = "done" => InTimeOrder(events)

\* the events were pushed out of time order, by sessions that interleave
C5_Witness ==
  /\ pc = "done"
  /\ Len(events) >= 3
  /\ ~InTimeOrder(PushedEvents)
  /\ \E i \in 1..(Len(events) - 2) :
       /\ events[i].uid[1] = events[i + 2].uid[1]
       /\ events[i].uid[1] # events[i + 1].uid[1]
       /\ events[i].timestamp < events[i + 1].timestamp
       /\ events[i + 1].timestamp < events[i + 2].timestamp

-----------------------------------------------------------------------------
(* C6 *)

\* C6: totalSessions is the number of discovered files, whatever the
\* deduplication removed and whatever the files held
C6_TotalSessions == pc = "done" => totalSessions = Len(files)

\* one file lost all its records to the deduplication, and is still counted
C6_Witness ==
  /\ pc = "done"
  /\ totalSessions = 3
  /\ \E k \in 1..Len(sessions) :
       /\ sessions[k].userMessages # <<>>
       /\ sessions[k].events # <<>>
       /\ merged[k].messages = <<>>
       /\ merged[k].events = <<>>
  /\ \E k \in 1..Len(sessions) :
       /\ sessions[k].events = <<>>
       /\ merged[k].messages # <<>>

-----------------------------------------------------------------------------
(* Vocabulary of the parse properties *)

\* this step read a token_count record with a timestamp
ReadsTimestampedTokenCount ==
  /\ pc = "parse" /\ pc' = "parse"
  /\ lineNo' = lineNo + 1
  /\ IsTokenCount(entry')
  /\ Truthy(entry'.timestamp)

\* this step appended a usage event
EmitsEvent == Len(sessionEvents') = Len(sessionEvents) + 1

IsStructured(value) == value.kind = "object"
LastUsageOf(line) ==
  IF IsStructured(line.payload.info) THEN line.payload.info.last_token_usage ELSE NoUsage
TotalUsageOf(line) ==
  IF IsStructured(line.payload.info) THEN line.payload.info.total_token_usage ELSE NoUsage

UsageFields ==
  {"input_tokens", "cached_input_tokens", "output_tokens",
   "reasoning_output_tokens", "total_tokens"}

\* the cumulative totals last seen in the lines read: those of the latest
\* timestamped token_count record with a structured total_token_usage, zero
\* if there is none
CumulativeRecords(lines) ==
  {i \in 1..Len(lines) :
     /\ IsTokenCount(lines[i]) /\ Truthy(lines[i].timestamp)
     /\ IsStructured(TotalUsageOf(lines[i]))}

LastSeenTotals(lines) ==
  IF CumulativeRecords(lines) = {} THEN [f \in UsageFields |-> 0]
  ELSE normalizeRawUsage(TotalUsageOf(lines[MaxOf(CumulativeRecords(lines))]))[1]

\* the usage C7 names for a record read after lines: <<>> when neither field
\* is structured
ClaimedUsage(line, lines) ==
  IF IsStructured(LastUsageOf(line)) THEN normalizeRawUsage(LastUsageOf(line))
  ELSE IF IsStructured(TotalUsageOf(line))
    THEN LET current == normalizeRawUsage(TotalUsageOf(line))[1]
             previous == LastSeenTotals(lines)
         IN <<[f \in UsageFields |->
                 IF current[f] - previous[f] > 0 THEN current[f] - previous[f] ELSE 0]>>
  ELSE <<>>

FourCountersZero(e) ==
  /\ e.inputTokens = 0 /\ e.cachedInputTokens = 0
  /\ e.outputTokens = 0 /\ e.reasoningOutputTokens = 0

-----------------------------------------------------------------------------
(* C7 *)

\* C7: for a timestamped token_count record the usage used is the normalized
\* last_token_usage when that is a structured record, else, when
\* total_token_usage is one, max(current - previous, 0) per field against the
\* cumulative totals last seen in the session (zero if none); the event
\* emitted carries that usage's input, output and reasoning counters.
C7_UsageOfRecord ==
  [][ReadsTimestampedTokenCount =>
       LET claimed == ClaimedUsage(entry', linesRead)
       IN /\ RawOf(entry', previousTotals) = claimed
          /\ claimed = <<>> => ~EmitsEvent
          /\ EmitsEvent =>
               /\ Last(sessionEvents').inputTokens = claimed[1].input_tokens
               /\ Last(sessionEvents').outputTokens = claimed[1].output_tokens
               /\ Last(sessionEvents').reasoningOutputTokens =
                    claimed[1].reasoning_output_tokens]_vars

\* cumulative (input 100, output 50), (150, 80), then input drops to 120 while
\* output rises to 90: the events carry (100, 50), (50, 30) and (0, 10)
C7_Witness ==
  /\ pc = "parse"
  /\ Len(sessionEvents) = 3
  /\ LastUsageOf(entry) = NoUsage
  /\ TotalUsageOf(entry) = UsageC
  /\ <<sessionEvents[1].inputTokens, sessionEvents[1].outputTokens>> = <<100, 50>>
  /\ <<sessionEvents[2].inputTokens, sessionEvents[2].outputTokens>> = <<50, 30>>
  /\ <<sessionEvents[3].inputTokens, sessionEvents[3].outputTokens>> = <<0, 10>>
  /\ sessionEvents[3].cachedInputTokens = 0
  /\ sessionEvents[3].reasoningOutputTokens = 0

-----------------------------------------------------------------------------
(* C8 *)

NonNegativeEvent(e) ==
  /\ e.inputTokens >= 0
  /\ e.cachedInputTokens >= 0
  /\ e.outputTokens >= 0
  /\ e.reasoningOutputTokens >= 0
  /\ e.totalTokens >= 0
  /\ e.cachedInputTokens <= e.inputTokens

\* C8: every usage event has its five counters >= 0 and cachedInputTokens <=
\* inputTokens, whatever finite counters the log holds, in total_token_usage
\* or in last_token_usage.
C8_EventsNonNegative ==
  /\ \A i \in 1..Len(sessionEvents) : NonNegativeEvent(sessionEvents[i])
  /\ \A k \in 1..Len(sessions) :
       \A i \in 1..Len(sessions[k].events) : NonNegativeEvent(sessions[k].events[i])

-----------------------------------------------------------------------------
(* C9 *)

\* C9: a token_count record whose derived delta has input, cached input,
\* output and reasoning counters all 0 appends no usage event, whatever its
\* totalTokens; so no event, and no token signature of a parsed session, comes
\* from such a delta.
C9_ZeroDeltaDropped ==
  /\ [][(/\ ReadsTimestampedTokenCount
         /\ RawOf(entry', previousTotals) # <<>>
         /\ FourCountersZero(convertToDelta(RawOf(entry', previousTotals)[1])))
        => sessionEvents' = sessionEvents]_vars
  /\ [](/\ \A i \in 1..Len(sessionEvents) : ~FourCountersZero(sessionEvents[i])
        /\ \A k \in 1..Len(sessions) :
             /\ Len(sessions[k].tokenSignatures) = Len(sessions[k].events)
             /\ \A i \in 1..Len(sessions[k].events) :
                  ~FourCountersZero(sessions[k].events[i]))

\* a record with zero counters and total_tokens 5 was read after an event,
\* and no event was added for it
C9_Witness ==
  /\ pc = "parse"
  /\ lineNo = 2
  /\ IsTokenCount(entry)
  /\ Truthy(entry.timestamp)
  /\ LastUsageOf(entry) = UsageZeroWithTotal
  /\ Len(sessionEvents) = 1

-----------------------------------------------------------------------------
(* C10 *)

\* C10: an emitted event's model is the model extracted from its own record,
\* else the tracked current model, else "gpt-5"; a record with a non-zero
\* delta is emitted whether or not it has a model; no event has an empty
\* model; and while the fallback flag is set every model-less event gets
\* "gpt-5".
C10_ModelResolution ==
  /\ [][ReadsTimestampedTokenCount =>
         LET extracted == extractModel(entry'.payload)
             raw == RawOf(entry', previousTotals)
         IN /\ (raw # <<>> /\ ~FourCountersZero(convertToDelta(raw[1]))) => EmitsEvent
            /\ EmitsEvent =>
                 /\ Last(sessionEvents').model =
                      IF extracted # <<>> THEN extracted
                      ELSE IF currentModel # <<>> THEN currentModel
                      ELSE <<"gpt-5">>
                 /\ (extracted = <<>> /\ currentModel = <<>>) => currentModelIsFallback'
                 /\ (extracted = <<>> /\ currentModelIsFallback)
                      => Last(sessionEvents').model = <<"gpt-5">>]_vars
  /\ [](\A i \in 1..Len(sessionEvents) :
          /\ sessionEvents[i].model # <<>>
          /\ asNonEmptyString(sessionEvents[i].model) = sessionEvents[i].model)

\* two model-less records in a row both got "gpt-5", then a record with its
\* own model got that model
C10_Witness ==
  /\ pc = "parse"
  /\ Len(sessionEvents) = 3
  /\ sessionEvents[1].model = <<"gpt-5">>
  /\ sessionEvents[2].model = <<"gpt-5">>
  /\ sessionEvents[3].model = <<"m3">>
  /\ ~currentModelIsFallback
  /\ legacyFallbackUsed

-----------------------------------------------------------------------------
(* C11 *)

\* this step read one more line of the current file
ReadsLine == lineNo' = lineNo + 1

\* blank or unparseable, a type other than session_meta, turn_context and
\* event_msg, or an event_msg that is neither user_message nor token_count
Ignored(line) ==
  \/ line.raw # "json"
  \/ line.type \notin {"session_meta", "turn_context", "event_msg"}
  \/ /\ line.type = "event_msg"
     /\ line.payload.type \notin {"user_message", "token_count"}

SessionState ==
  <<userMessages, sessionEvents, previousTotals, currentModel,
    currentModelIsFallback, legacyFallbackUsed, sessionId, forkedFromId,
    sessionCwd, sessionDate>>

\* C11: reading a blank line, a line that is not JSON, a record of another
\* type or an event_msg of another inner type leaves the messages, events,
\* previous totals, current model and fallback flag, session id, forked-from
\* id, working directory and session date as they were, and the file is still
\* being read afterwards.
C11_IgnoredLinesSkipped ==
  [][(ReadsLine /\ Ignored(entry'))
       => /\ UNCHANGED SessionState
          /\ pc' = "parse"
          /\ sessions' = sessions]_vars

\* an event_msg of another inner type that carries usage, a model, an id and
\* a cwd was read between a session_meta record and a user message
C11_Witness ==
  /\ pc = "parse"
  /\ lineNo = 3
  /\ IsSessionMeta(linesRead[1])
  /\ linesRead[2] = JsonLine("event_msg", <<1>>, FullPayload("agent_message"))
  /\ IsUserMessage(linesRead[3])
  /\ sessionId = <<"s1">>
  /\ sessionCwd = <<"d1">>
  /\ Len(userMessages) = 1
  /\ sessionEvents = <<>>
  /\ currentModel = <<>>

-----------------------------------------------------------------------------
(* C12 *)

TimestampedLines(lines, IsKind(_)) ==
  {i \in 1..Len(lines) : IsKind(lines[i]) /\ Truthy(lines[i].timestamp)}

\* C12: a user_message record without a top-level timestamp leaves the message
\* list as it was and a token_count record without one leaves the events as
\* they were; the messages of a file are its timestamped user_message records,
\* its events come from timestamped token_count records, and a parsed session
\* has one message signature per message.
C12_UntimestampedDropped ==
  /\ [][(ReadsLine /\ ~Truthy(entry'.timestamp))
          => /\ IsUserMessage(entry') => userMessages' = userMessages
             /\ IsTokenCount(entry') => sessionEvents' = sessionEvents]_vars
  /\ [](/\ pc = "parse" =>
             /\ Len(userMessages) = Cardinality(TimestampedLines(linesRead, IsUserMessage))
             /\ Len(sessionEvents) <= Cardinality(TimestampedLines(linesRead, IsTokenCount))
        /\ \A k \in 1..Len(sessions) :
             Len(sessions[k].messageSignatures) = Len(sessions[k].userMessages))

\* a timestamped user message, then a user message and a token_count record
\* whose only timestamp is inside the payload
C12_Witness ==
  /\ pc = "parse"
  /\ linesRead = <<UserLine,
                   JsonLine("event_msg", <<>>, FullPayload("user_message")),
                   JsonLine("event_msg", <<>>, FullPayload("token_count"))>>
  /\ Len(userMessages) = 1
  /\ sessionEvents = <<>>

-----------------------------------------------------------------------------
(* C13 *)

\* the .jsonl files of the readable day directories of the readable month
\* directories
SessionFilesUnder(year) ==
  IF ~year.readable THEN {}
  ELSE UNION {UNION {{join(join(join(year.name, m.name), d.name), e.name) :
                        e \in {x \in Range(d.entries) : x.isFile /\ x.jsonl}} :
                     d \in {x \in Range(m.entries) : x.isDirectory /\ x.readable}} :
              m \in {x \in Range(year.entries) : x.isDirectory /\ x.readable}}

\* C13: the files listed are exactly the .jsonl files of the day directories
\* that can be read, each once, so a year, month or day directory that cannot
\* be read contributes nothing and stops nothing; with no year directory the
\* collection ends with no events, no activity, no messages, no sessions, no
\* projects and no earliest date.
C13_DirectoriesTolerated ==
  /\ pc # "list" =>
       /\ Range(files) = SessionFilesUnder(yearDir)
       /\ Len(files) = Cardinality(SessionFilesUnder(yearDir))
  /\ (pc = "done" /\ ~yearDir.readable) =>
       /\ events = <<>>
       /\ dailyActivity = <<>>
       /\ totalMessages = 0
       /\ totalSessions = 0
       /\ projects = {}
       /\ earliestSessionDate = <<>>

\* the first month and the first day of the second month cannot be read, and
\* the one session file of the second day was collected
C13_Witness ==
  /\ pc = "done"
  /\ yearDir.readable
  /\ Len(yearDir.entries) = 2
  /\ yearDir.entries[1] = UnreadableDir(1)
  /\ yearDir.entries[2].readable
  /\ Len(yearDir.entries[2].entries) = 2
  /\ yearDir.entries[2].entries[1] = UnreadableDir(1)
  /\ files = <<223>>
  /\ totalSessions = 1

-----------------------------------------------------------------------------
(* C14 *)

NothingMerged ==
  [events |-> <<>>, dailyActivity |-> <<>>, totalMessages |-> 0,
   projects |-> {}, earliestSessionDate |-> <<>>,
   priorSessionsByCwd |-> <<>>, sessionsById |-> <<>>, starts |-> <<>>]

\* the locals of the merge after the sessions list[k..] are processed from
\* acc, with the start indices computed on the way
RECURSIVE MergeFrom(_, _, _)
MergeFrom(list, k, acc) ==
  IF k > Len(list) THEN acc
  ELSE LET session == list[k]
           start == StartIndices(session, acc.sessionsById, acc.priorSessionsByCwd)
           keptMessages == DropFirst(session.userMessages, start.message)
           keptEvents == DropFirst(session.events, start.token)
       IN MergeFrom(list, k + 1,
            [events |-> acc.events \o keptEvents,
             dailyActivity |-> CountDays(acc.dailyActivity, keptMessages),
             totalMessages |-> acc.totalMessages + Len(keptMessages),
             projects |-> IF session.cwd # <<>> THEN acc.projects \cup {session.cwd}
                          ELSE acc.projects,
             earliestSessionDate |->
               IF session.sessionDate # <<>>
                  /\ (acc.earliestSessionDate = <<>>
                      \/ session.sessionDate[1] < acc.earliestSessionDate[1])
                 THEN session.sessionDate ELSE acc.earliestSessionDate,
             priorSessionsByCwd |->
               IF ParentOf(session, acc.sessionsById) = <<>> /\ session.cwd # <<>>
                 THEN MapSet(acc.priorSessionsByCwd, session.cwd,
                             Append(MapGet(acc.priorSessionsByCwd, session.cwd, <<>>),
                                    DedupSignatures(session)))
                 ELSE acc.priorSessionsByCwd,
             sessionsById |->
               IF session.sessionId # <<>>
                 THEN MapSet(acc.sessionsById, session.sessionId, DedupSignatures(session))
                 ELSE acc.sessionsById,
             starts |-> Append(acc.starts, start)])

\* what a run returns when it discovers the parsed files in the given order
ResultOf(discovered) ==
  LET end == MergeFrom(SortSessions(discovered), 1, NothingMerged)
  IN [events |-> SortEvents(end.events),
      dailyActivity |-> end.dailyActivity,
      totalMessages |-> end.totalMessages,
      totalSessions |-> Len(discovered),
      projects |-> end.projects,
      earliestSessionDate |-> end.earliestSessionDate]

Returned ==
  [events |-> events, dailyActivity |-> dailyActivity,
   totalMessages |-> totalMessages, totalSessions |-> totalSessions,
   projects |-> projects, earliestSessionDate |-> earliestSessionDate]

\* C14: the result returned is the result of a run that discovers the same
\* files in any other order: events, dailyActivity, totalMessages,
\* totalSessions, projects and earliestSessionDate depend on the set of files
\* only.
C14_OrderIndependent ==
  pc = "done" =>
    \A order \in Orderings(Len(sessions)) :
      ResultOf([i \in 1..Len(sessions) |-> sessions[order[i]]]) = Returned

\* a fork was discovered before its parent, processed after it and trimmed
C14_Witness ==
  /\ pc = "done"
  /\ Len(files) >= 2
  /\ \E i, j \in 1..Len(merged) :
       /\ i < j
       /\ merged[j].filePath = files[1]
       /\ merged[j].messageStartIndex > 0
       /\ sessions[j].forkedFromId # <<>>
       /\ sessions[j].forkedFromId = sessions[i].sessionId

-----------------------------------------------------------------------------
(* C15 *)

\* this step processed sessions[idx]
ProcessesSession == pc = "dedup" /\ idx' = idx + 1

\* C15: when a session is processed, its signature sequences are recorded
\* under its session id if it has one and, if it has a working directory,
\* appended to the candidate list of that directory, whether or not an
\* explicit parent was found for it.
C15_EveryProcessedSessionRecorded ==
  [][ProcessesSession =>
       LET session == sessions[idx]
       IN /\ session.sessionId # <<>> =>
               MapGet(sessionsById', session.sessionId, <<>>) = DedupSignatures(session)
          /\ session.cwd # <<>> =>
               MapGet(priorSessionsByCwd', session.cwd, <<>>)
                 = Append(MapGet(priorSessionsByCwd, session.cwd, <<>>),
                          DedupSignatures(session))]_vars

-----------------------------------------------------------------------------
(* C16 *)

\* this step read a token_count record with a structured total_token_usage
ReadsCumulativeRecord ==
  /\ ReadsLine
  /\ IsTokenCount(entry')
  /\ IsStructured(TotalUsageOf(entry'))

\* C16 as stated: every token_count record with a structured
\* total_token_usage sets the previous totals to its normalized totals.
C16_EveryCumulativeRecordSetsTotals ==
  [][ReadsCumulativeRecord
       => previousTotals' = normalizeRawUsage(TotalUsageOf(entry'))]_vars

\* C16: every token_count record with a top-level timestamp and a structured
\* total_token_usage sets the previous totals to its normalized totals,
\* whether or not it has a last_token_usage and whether or not it yields an
\* event; a record without a timestamp leaves them as they were; so the
\* previous totals are those of the latest timestamped cumulative record.
C16_TimestampedCumulativeRecordSetsTotals ==
  /\ [][ReadsCumulativeRecord
          => previousTotals' =
               IF Truthy(entry'.timestamp)
                 THEN normalizeRawUsage(TotalUsageOf(entry'))
                 ELSE previousTotals]_vars
  /\ [](pc = "parse" =>
          previousTotals = IF CumulativeRecords(linesRead) = {} THEN <<>>
                           ELSE <<LastSeenTotals(linesRead)>>)

\* a record with a zero last_token_usage and cumulative totals yielded no
\* event, and the next cumulative-only record was differenced against it
C16_Witness ==
  /\ pc = "parse"
  /\ linesRead = <<Timestamped(TokenPayload(UsageInfo(UsageZeroWithTotal, UsageA))),
                   Timestamped(TokenPayload(UsageInfo(NoUsage, UsageB)))>>
  /\ previousTotals = normalizeRawUsage(UsageB)
  /\ Len(sessionEvents) = 1
  /\ sessionEvents[1].inputTokens = 50
  /\ sessionEvents[1].outputTokens = 30

-----------------------------------------------------------------------------
(* C17 *)

MinOf(S) == CHOOSE x \in S : \A y \in S : x <= y

MetaRecords(lines) == {i \in 1..Len(lines) : IsSessionMeta(lines[i])}

PayloadId(payload) == payload.id
PayloadForkedFromId(payload) == payload.forked_from_id

\* the first non-empty value of a payload field over the session_meta records
FirstNonEmptyField(lines, Field(_)) ==
  LET hits == {i \in MetaRecords(lines) :
                 asNonEmptyString(Field(lines[i].payload)) # <<>>}
  IN IF hits = {} THEN <<>>
     ELSE asNonEmptyString(Field(lines[MinOf(hits)].payload))

LastCwd(lines) ==
  LET hits == {i \in MetaRecords(lines) : lines[i].payload.cwd # <<>>}
  IN IF hits = {} THEN <<>> ELSE lines[MaxOf(hits)].payload.cwd

\* payload.timestamp, else the top-level timestamp
MetaTimestamp(line) ==
  IF line.payload.timestamp # <<>> THEN line.payload.timestamp ELSE line.timestamp

EarliestMetaTimestamp(lines) ==
  LET stamps == {MetaTimestamp(lines[i])[1] :
                   i \in {j \in MetaRecords(lines) : Truthy(MetaTimestamp(lines[j]))}}
  IN IF stamps = {} THEN <<>> ELSE <<MinOf(stamps)>>

\* C17: over the session_meta records read from a file, the session id is the
\* first non-empty payload.id and the forked-from id the first non-empty
\* payload.forked_from_id, neither changes once set, the working directory is
\* the last non-empty payload.cwd, and the session date is the least of the
\* records' timestamps (payload.timestamp, else the top-level one); the
\* session pushed at the end of the file carries these four values.
C17_SessionMetaFields ==
  /\ [](pc = "parse" =>
          /\ sessionId = FirstNonEmptyField(linesRead, PayloadId)
          /\ forkedFromId = FirstNonEmptyField(linesRead, PayloadForkedFromId)
          /\ sessionCwd = LastCwd(linesRead)
          /\ sessionDate = EarliestMetaTimestamp(linesRead))
  /\ [][ReadsLine =>
          /\ sessionId # <<>> => sessionId' = sessionId
          /\ forkedFromId # <<>> => forkedFromId' = forkedFromId]_vars
  /\ [][Len(sessions') = Len(sessions) + 1 =>
          /\ Last(sessions').sessionId = sessionId
          /\ Last(sessions').forkedFromId = forkedFromId
          /\ Last(sessions').cwd = sessionCwd
          /\ Last(sessions').sessionDate = sessionDate]_vars

\* three session_meta records: the first id and the first forked-from id were
\* kept, the last cwd won, and the date is the payload timestamp of the second
C17_Witness ==
  /\ pc = "parse"
  /\ linesRead = <<Meta(<<2>>, <<>>, <<"d1">>, <<"s1">>, <<>>),
                   Meta(<<3>>, <<1>>, <<>>, <<"s2">>, <<"p1">>),
                   Meta(<<1>>, <<2>>, <<"d2">>, <<" ">>, <<"p2">>)>>
  /\ sessionId = <<"s1">>
  /\ forkedFromId = <<"p1">>
  /\ sessionCwd = <<"d2">>
  /\ sessionDate = <<1>>

-----------------------------------------------------------------------------
(* C18 *)

IsPrefixOf(a, b) == Len(a) <= Len(b) /\ SubSeq(b, 1, Len(a)) = a

\* the earlier sessions that were appended to the candidate list of the
\* directory of session k: same directory, no explicit parent found
EarlierCandidates(k) ==
  {j \in 1..(k - 1) : sessions[j].cwd = sessions[k].cwd /\ EarlierWithId(j) = {}}

\* the start index of session k for one kind of signature sequence, from the
\* sessions before it alone
StartFromEarlier(k, SignaturesOf(_)) ==
  LET own == SignaturesOf(sessions[k])
  IN IF EarlierWithId(k) # {}
       THEN LongestCommonPrefix(own, SignaturesOf(sessions[MaxOf(EarlierWithId(k))]))
     ELSE IF sessions[k].cwd # <<>>
       THEN GuardedOverlap(
              MaxOf({0} \cup {LongestCommonPrefix(own, SignaturesOf(sessions[j])) :
                                j \in EarlierCandidates(k)}),
              Len(own))
     ELSE 0

MessageSignaturesOf(session) == session.messageSignatures
TokenSignaturesOf(session) == session.tokenSignatures

\* the signature sequences of the sessions before position k that were
\* appended to the candidate list of a directory, in processing order
RECURSIVE RecordedBefore(_, _)
RecordedBefore(k, cwd) ==
  IF k <= 1 THEN <<>>
  ELSE IF sessions[k - 1].cwd = cwd /\ EarlierWithId(k - 1) = {}
    THEN Append(RecordedBefore(k - 1, cwd), DedupSignatures(sessions[k - 1]))
  ELSE RecordedBefore(k - 1, cwd)

\* C18: the start indices of a processed session are those computed from the
\* sessions before it in the processing order; the lookup state holds earlier
\* sessions only; a step of the merge leaves what earlier sessions
\* contributed, and their start indices, as they were; and every candidate
\* list is a prefix of what it is after the step.
C18_OnlyEarlierSessions ==
  /\ [](Merging =>
          /\ \A k \in 1..Len(merged) :
               /\ merged[k].messageStartIndex = StartFromEarlier(k, MessageSignaturesOf)
               /\ merged[k].tokenStartIndex = StartFromEarlier(k, TokenSignaturesOf)
          /\ DOMAIN sessionsById =
               {sessions[j].sessionId : j \in {i \in 1..Len(merged) :
                                                     sessions[i].sessionId # <<>>}}
          /\ \A cwd \in DOMAIN priorSessionsByCwd :
               priorSessionsByCwd[cwd] = RecordedBefore(Len(merged) + 1, cwd))
  /\ [][/\ IsPrefixOf(merged, merged')
        /\ pc' = "dedup" => IsPrefixOf(events, events')
        /\ totalMessages' >= totalMessages
        /\ \A cwd \in DOMAIN priorSessionsByCwd :
             /\ cwd \in DOMAIN priorSessionsByCwd'
             /\ IsPrefixOf(priorSessionsByCwd[cwd], priorSessionsByCwd'[cwd])]_vars

\* a fork that sorts before the session it names keeps all its messages, and
\* two sessions are recorded for one directory
C18_Witness ==
  /\ pc = "done"
  /\ \E k, j \in 1..Len(merged) :
       /\ k < j
       /\ sessions[k].forkedFromId # <<>>
       /\ sessions[k].forkedFromId = sessions[j].sessionId
       /\ LongestCommonPrefix(sessions[k].messageSignatures,
                              sessions[j].messageSignatures) >= 1
       /\ merged[k].messageStartIndex = 0
  /\ \E cwd \in DOMAIN priorSessionsByCwd : Len(priorSessionsByCwd[cwd]) >= 2

-----------------------------------------------------------------------------
(* C19 *)

\* the merge over a list of sessions that is in processing order
MergeOf(list) == MergeFrom(list, 1, NothingMerged)

NoRecords == [userMessages |-> <<>>, messageSignatures |-> <<>>,
              events |-> <<>>, tokenSignatures |-> <<>>]

\* a session with the token events, or the user messages, of another
WithEvents(session, other) ==
  [session EXCEPT !.events = other.events,
                  !.tokenSignatures = other.tokenSignatures]

WithMessages(session, other) ==
  [session EXCEPT !.userMessages = other.userMessages,
                  !.messageSignatures = other.messageSignatures]

\* the session lists that differ from list in the token events of one session
\* (emptied, or replaced by those of the first or the last session), or have
\* none at all
TokenVariants(list) ==
  {[i \in 1..Len(list) |-> WithEvents(list[i], NoRecords)]}
    \cup {[i \in 1..Len(list) |-> IF i = k THEN WithEvents(list[i], other) ELSE list[i]] :
            k \in 1..Len(list), other \in {NoRecords, list[1], list[Len(list)]}}

MessageVariants(list) ==
  {[i \in 1..Len(list) |-> WithMessages(list[i], NoRecords)]}
    \cup {[i \in 1..Len(list) |-> IF i = k THEN WithMessages(list[i], other) ELSE list[i]] :
            k \in 1..Len(list), other \in {NoRecords, list[1], list[Len(list)]}}

\* C19: the message start indices, totalMessages and dailyActivity of a run
\* are those of the run over the same sessions with other token events, and
\* the token start indices and the returned events are those of the run over
\* the same sessions with other user messages.
C19_TrimmingIndependent ==
  pc = "done" =>
    /\ MergeOf(sessions).starts =
         [k \in 1..Len(sessions) |->
            [message |-> merged[k].messageStartIndex,
             token |-> merged[k].tokenStartIndex]]
    /\ \A variant \in TokenVariants(sessions) :
         LET end == MergeOf(variant)
         IN /\ \A k \in 1..Len(sessions) :
                 end.starts[k].message = merged[k].messageStartIndex
            /\ end.totalMessages = totalMessages
            /\ end.dailyActivity = dailyActivity
    /\ \A variant \in MessageVariants(sessions) :
         LET end == MergeOf(variant)
         IN /\ \A k \in 1..Len(sessions) :
                 end.starts[k].token = merged[k].tokenStartIndex
            /\ SortEvents(end.events) = events

\* a session lost leading messages and none of its token events
C19_Witness ==
  /\ pc = "done"
  /\ \E k \in 1..Len(merged) :
       /\ merged[k].messageStartIndex > 0
       /\ merged[k].tokenStartIndex = 0
       /\ sessions[k].events # <<>>

-----------------------------------------------------------------------------
(* C20 *)

SameModelAndCounters(a, b) ==
  /\ a.model = b.model
  /\ a.inputTokens = b.inputTokens
  /\ a.cachedInputTokens = b.cachedInputTokens
  /\ a.outputTokens = b.outputTokens
  /\ a.reasoningOutputTokens = b.reasoningOutputTokens
  /\ a.totalTokens = b.totalTokens

\* the usage events of the file being read and of the parsed sessions
EventsSeen ==
  Range(sessionEvents) \cup UNION {Range(sessions[k].events) : k \in 1..Len(sessions)}

\* C20: two usage events have the same token signature exactly when they have
\* the same model and the same five counters, also for models that contain
\* the delimiter; an event's signature is the same at any timestamp; and the
\* token signatures of a parsed session are those of its events.
C20_TokenSignatureInjective ==
  /\ \A a, b \in EventsSeen :
       (createTokenEventSignature(a) = createTokenEventSignature(b))
         <=> SameModelAndCounters(a, b)
  /\ \A a \in EventsSeen : \A t \in 0..MaxTime :
       createTokenEventSignature([a EXCEPT !.timestamp = t])
         = createTokenEventSignature(a)
  /\ \A k \in 1..Len(sessions) :
       sessions[k].tokenSignatures =
         [i \in 1..Len(sessions[k].events) |->
            createTokenEventSignature(sessions[k].events[i])]

\* the same record at two instants, then a record whose model contains the
\* delimiter and a digit
C20_Witness ==
  /\ pc = "parse"
  /\ linesRead = <<SignatureLine(1, <<"a">>, 1, 2, 3),
                   SignatureLine(2, <<"a">>, 1, 2, 3),
                   SignatureLine(1, <<"a", "|", "1">>, 2, 2, 3)>>
  /\ Len(sessionEvents) = 3
  /\ sessionEvents[1].timestamp # sessionEvents[2].timestamp
  /\ createTokenEventSignature(sessionEvents[1])
       = <<"a", "|", "1", "|", "0", "|", "2", "|", "0", "|", "3">>
  /\ createTokenEventSignature(sessionEvents[3])
       = <<"a", "|", "1", "|", "2", "|", "0", "|", "2", "|", "0", "|", "3">>

-----------------------------------------------------------------------------
(* C21 *)

\* the sessions the loop has gone through
Processed == IF pc = "done" THEN 1..Len(sessions) ELSE 1..(idx - 1)

WorkingDirectories(K) == {sessions[k].cwd : k \in {j \in K : sessions[j].cwd # <<>>}}

SessionDates(K) == {sessions[k].sessionDate[1] : k \in {j \in K : sessions[j].sessionDate # <<>>}}

EarliestDate(K) == IF SessionDates(K) = {} THEN <<>> ELSE <<MinOf(SessionDates(K))>>

FullyTrimmed(k) ==
  /\ sessions[k].userMessages # <<>> \/ sessions[k].events # <<>>
  /\ merged[k].messages = <<>>
  /\ merged[k].events = <<>>

\* C21: during the pass and at the return, projects is the set of the
\* non-empty working directories of the sessions gone through and
\* earliestSessionDate is the least of their dates (none when no session has
\* one), whatever was trimmed from them; at the return these are all the
\* parsed sessions.
C21_ProjectsAndEarliestDate ==
  pc \in {"dedup", "done"} =>
    /\ projects = WorkingDirectories(Processed)
    /\ earliestSessionDate = EarliestDate(Processed)
    /\ pc = "done" => Processed = 1..Len(sessions)

\* a session that lost all its records is the only one in its directory, and
\* another session lost none
C21_Witness ==
  /\ pc = "done"
  /\ \E k \in 1..Len(sessions) :
       /\ FullyTrimmed(k)
       /\ sessions[k].cwd = <<"d2">>
       /\ \A j \in 1..Len(sessions) : j # k => sessions[j].cwd # <<"d2">>
       /\ sessions[k].sessionDate # <<>>
  /\ \E k \in 1..Len(sessions) :
       /\ merged[k].messageStartIndex = 0 /\ merged[k].tokenStartIndex = 0
       /\ sessions[k].userMessages # <<>>
  /\ projects = {<<"d1">>, <<"d2">>}
  /\ earliestSessionDate = <<2>>

-----------------------------------------------------------------------------
(* C22 *)

Occurrences(list, x) == Cardinality({i \in 1..Len(list) : list[i] = x})

SubMultiset(small, large) ==
  \A x \in Range(small) : Occurrences(small, x) <= Occurrences(large, x)

AllParsedEvents == Flatten([k \in 1..Len(sessions) |-> sessions[k].events])
AllParsedMessages == Flatten([k \in 1..Len(sessions) |-> sessions[k].userMessages])

\* the records of session k from its start indices on, read off the session
MessageSuffix(k) ==
  SubSeq(sessions[k].userMessages, merged[k].messageStartIndex + 1,
         Len(sessions[k].userMessages))
EventSuffix(k) ==
  SubSeq(sessions[k].events, merged[k].tokenStartIndex + 1, Len(sessions[k].events))

SuffixesPushed == Flatten([k \in 1..Len(merged) |-> EventSuffix(k)])
SuffixesCounted == Flatten([k \in 1..Len(merged) |-> MessageSuffix(k)])

\* C22: the start indices of every session gone through lie between 0 and the
\* lengths of its two streams; what the session adds to the events and to the
\* message count is exactly its suffix from the index on, in order; so the
\* events are a sub-multiset of the parsed events and totalMessages is at
\* most the number of parsed messages; a session with no parent on record and
\* no working directory is not trimmed.
C22_SuffixContributed ==
  Merging =>
    /\ \A k \in 1..Len(merged) :
         /\ merged[k].messageStartIndex \in 0..Len(sessions[k].userMessages)
         /\ merged[k].tokenStartIndex \in 0..Len(sessions[k].events)
         /\ merged[k].messages = MessageSuffix(k)
         /\ merged[k].events = EventSuffix(k)
         /\ (EarlierWithId(k) = {} /\ sessions[k].cwd = <<>>)
              => merged[k].messageStartIndex = 0 /\ merged[k].tokenStartIndex = 0
    /\ pc = "dedup" => events = SuffixesPushed
    /\ pc = "done" => SubMultiset(events, SuffixesPushed) /\ SubMultiset(SuffixesPushed, events)
    /\ SubMultiset(events, AllParsedEvents)
    /\ totalMessages = Len(SuffixesCounted)
    /\ totalMessages <= Len(AllParsedMessages)

\* a session that lost some of its usage events and kept the rest, and all
\* of its messages
C22_Witness ==
  /\ pc = "done"
  /\ \E k \in 1..Len(sessions) :
       /\ merged[k].tokenStartIndex > 0
       /\ merged[k].tokenStartIndex < Len(sessions[k].events)
       /\ merged[k].messageStartIndex = Len(sessions[k].userMessages)
       /\ merged[k].messageStartIndex > 0
  /\ Len(events) < Len(AllParsedEvents)
  /\ totalMessages < Len(AllParsedMessages)

-----------------------------------------------------------------------------
(* C23 *)

SummedCounters == {"input_tokens", "output_tokens", "reasoning_output_tokens"}

\* no timestamped token_count record of the lines has a structured
\* last_token_usage
OnlyCumulative(lines) ==
  \A i \in TimestampedLines(lines, IsTokenCount) : ~IsStructured(LastUsageOf(lines[i]))

\* the three counters of the cumulative records are numbers, none negative,
\* none lower than in an earlier record
NonDecreasingCounters(lines) ==
  /\ \A i \in CumulativeRecords(lines) : \A f \in SummedCounters :
       /\ TotalUsageOf(lines[i])[f].kind = "number"
       /\ TotalUsageOf(lines[i])[f].num >= 0
  /\ \A i, j \in CumulativeRecords(lines) : \A f \in SummedCounters :
       i < j => TotalUsageOf(lines[i])[f].num <= TotalUsageOf(lines[j])[f].num

LastCumulative(lines, f) ==
  IF CumulativeRecords(lines) = {} THEN 0
  ELSE TotalUsageOf(lines[MaxOf(CumulativeRecords(lines))])[f].num

RECURSIVE SumOf(_, _)
SumOf(list, f) == IF list = <<>> THEN 0 ELSE Head(list)[f] + SumOf(Tail(list), f)

\* C23: while a file is read whose timestamped token_count records have no
\* last_token_usage and whose cumulative input, output and reasoning counters
\* are non-negative numbers that never decrease, the events emitted so far
\* sum to the last cumulative value read, counter by counter.
C23_CumulativeSumsPreserved ==
  (pc = "parse" /\ OnlyCumulative(linesRead) /\ NonDecreasingCounters(linesRead)) =>
    /\ SumOf(sessionEvents, "inputTokens") = LastCumulative(linesRead, "input_tokens")
    /\ SumOf(sessionEvents, "outputTokens") = LastCumulative(linesRead, "output_tokens")
    /\ SumOf(sessionEvents, "reasoningOutputTokens")
         = LastCumulative(linesRead, "reasoning_output_tokens")

\* three cumulative records, the second repeating the first and suppressed
C23_Witness ==
  /\ pc = "parse"
  /\ linesRead = <<Timestamped(TokenPayload(UsageInfo(NoUsage, UsageA))),
                   Timestamped(TokenPayload(UsageInfo(NoUsage, UsageA))),
                   Timestamped(TokenPayload(UsageInfo(NoUsage, UsageB)))>>
  /\ Len(sessionEvents) = 2
  /\ SumOf(sessionEvents, "inputTokens") = 150
  /\ SumOf(sessionEvents, "outputTokens") = 80
  /\ SumOf(sessionEvents, "reasoningOutputTokens") = 10

-----------------------------------------------------------------------------
(* C24 *)

ModelTracker == <<currentModel, currentModelIsFallback>>

\* C24: reading a token_count record that adds no usage event leaves the
\* current model and the fallback flag as they were, whatever model the
\* record carries; the line read changes them only if it is a token_count
\* record that adds an event or a turn_context record with a model.
C24_TrackerFrame ==
  [][ReadsLine =>
       /\ (IsTokenCount(entry') /\ ~EmitsEvent) => UNCHANGED ModelTracker
       /\ ModelTracker' # ModelTracker =>
            \/ IsTokenCount(entry') /\ EmitsEvent
            \/ entry'.type = "turn_context" /\ extractModel(entry'.payload) # <<>>]_vars

\* after a record without a model set the fallback, a record with a model and
\* an all-zero delta and a record with a model and no timestamp were read
C24_Witness ==
  /\ pc = "parse"
  /\ linesRead = <<Timestamped(ModelPayload(<<>>, <<>>, <<>>, <<>>, <<>>)),
                   Timestamped([ModelPayload(<<"m1">>, <<>>, <<>>, <<>>, <<>>)
                                  EXCEPT !.info.last_token_usage = UsageZeroWithTotal]),
                   Untimestamped(ModelPayload(<<"m1">>, <<>>, <<>>, <<>>, <<>>))>>
  /\ Len(sessionEvents) = 1
  /\ currentModel = <<"gpt-5">>
  /\ currentModelIsFallback

-----------------------------------------------------------------------------
(* C25 *)

\* positions of the sessions gone through that carry the id
ProcessedWithId(id) == {k \in 1..Len(merged) : sessions[k].sessionId = id}

ProcessedIds == {sessions[k].sessionId : k \in {j \in 1..Len(merged) : sessions[j].sessionId # <<>>}}

\* C25: the id index has one entry per id of the sessions gone through, and
\* the entry holds the signature sequences of the last of them that carries
\* the id; a session whose forkedFromId is the id of sessions gone through
\* before it starts after its common prefix with the last of those, also when
\* an older one with the same id shares more with it.
C25_LatestSessionOfIdIndexed ==
  Merging =>
    /\ DOMAIN sessionsById = ProcessedIds
    /\ \A id \in ProcessedIds :
         LET latest == sessions[MaxOf(ProcessedWithId(id))]
         IN /\ sessionsById[id].messageSignatures = latest.messageSignatures
            /\ sessionsById[id].tokenSignatures = latest.tokenSignatures
    /\ \A k \in 1..Len(merged) :
         EarlierWithId(k) # {} =>
           LET latest == sessions[MaxOf(EarlierWithId(k))]
           IN /\ merged[k].messageStartIndex =
                   LongestCommonPrefix(sessions[k].messageSignatures,
                                       latest.messageSignatures)
              /\ merged[k].tokenStartIndex =
                   LongestCommonPrefix(sessions[k].tokenSignatures,
                                       latest.tokenSignatures)

\* two earlier sessions carry the id the child names; the child shares three
\* messages with the older one and one with the later one, and loses one
C25_Witness ==
  /\ pc = "done"
  /\ \E k \in 1..Len(sessions) :
       /\ Cardinality(EarlierWithId(k)) = 2
       /\ LongestCommonPrefix(sessions[k].messageSignatures,
                              sessions[MinOf(EarlierWithId(k))].messageSignatures) = 3
       /\ merged[k].messageStartIndex = 1
       /\ Len(merged[k].messages) = Len(sessions[k].userMessages) - 1

-----------------------------------------------------------------------------
(* C26 *)

\* the line read carries a model that extractModel returns
SuppliesModel == extractModel(entry'.payload) # <<>>

\* C26: while the fallback flag is set the current model is "gpt-5"; the flag
\* gets set only by a token_count record that adds an event while neither the
\* record nor the tracker has a model; and after a turn_context record with a
\* model, or a token_count record with a model that adds an event, the flag
\* is not set.
C26_FallbackFlag ==
  /\ [](currentModelIsFallback => currentModel = <<"gpt-5">>)
  /\ [][ReadsLine =>
          /\ (~currentModelIsFallback /\ currentModelIsFallback') =>
               /\ IsTokenCount(entry') /\ EmitsEvent
               /\ ~SuppliesModel
               /\ currentModel = <<>>
          /\ (entry'.type = "turn_context" /\ SuppliesModel) => ~currentModelIsFallback'
          /\ (IsTokenCount(entry') /\ EmitsEvent /\ SuppliesModel)
               => ~currentModelIsFallback']_vars

\* a turn_context record without a usable model, then two records without a
\* model: the flag is set and both events carry "gpt-5"
C26_Witness ==
  /\ pc = "parse"
  /\ lineNo = 3
  /\ linesRead[1] = TurnContextLine(<<" ">>)
  /\ Len(sessionEvents) = 2
  /\ currentModelIsFallback
  /\ currentModel = <<"gpt-5">>
  /\ sessionEvents[2].model = <<"gpt-5">>

-----------------------------------------------------------------------------
(* C27 *)

RECURSIVE SumOfCounts(_)
\* the sum of the values of a Map of counts
SumOfCounts(map) ==
  IF DOMAIN map = {} THEN 0
  ELSE LET key == CHOOSE k \in DOMAIN map : TRUE
       IN map[key] + SumOfCounts([k \in DOMAIN map \ {key} |-> map[k]])

RECURSIVE MessagesAfterStart(_)
\* the sum over the first n sessions of the number of messages from the start
\* index on
MessagesAfterStart(n) ==
  IF n = 0 THEN 0
  ELSE MessagesAfterStart(n - 1)
         + Len(sessions[n].userMessages) - merged[n].messageStartIndex

\* C27: after every iteration of the pass totalMessages is the sum of the
\* dailyActivity counts and the number of messages, from their start index
\* on, of the sessions gone through; at the return these are all the
\* sessions.
C27_TotalMessagesIsSumOfDays ==
  Merging =>
    /\ totalMessages = SumOfCounts(dailyActivity)
    /\ totalMessages = MessagesAfterStart(Len(merged))
    /\ pc = "done" => Len(merged) = Len(sessions)

\* messages on two days, two of them on one day, from two sessions one of
\* which was trimmed
C27_Witness ==
  /\ pc = "done"
  /\ Cardinality(DOMAIN dailyActivity) >= 2
  /\ \E day \in DOMAIN dailyActivity : dailyActivity[day] >= 2
  /\ \E k \in 1..Len(sessions) :
       merged[k].messageStartIndex > 0 /\ merged[k].messages # <<>>
  /\ \E k \in 1..Len(sessions) :
       merged[k].messageStartIndex = 0 /\ merged[k].messages # <<>>
  /\ totalMessages = SumOfCounts(dailyActivity)
  /\ totalMessages >= 4

====
